---- MODULE Spec2Model ----
(***************************************************************************)
(* Model of the marco regime engine (backend/app): the classifiers of      *)
(* rules.py, the regime aggregation of snapshot_logic.build_snapshot and   *)
(* ingest.ingest_and_compute, and the observation store they read.         *)
(*                                                                         *)
(* Conventions                                                             *)
(*   - a date is an integer day number; a timedelta of n days is n;        *)
(*   - a pandas Series is a function from a finite set of dates to values; *)
(*     the empty Series is the function with the empty domain;             *)
(*   - observation values are integers (the unit is one hundredth where    *)
(*     the source has a decimal constant, e.g. flat_band 0.25 is 25);      *)
(*   - a quantile is kept exactly, in hundredths of the value unit         *)
(*     (pandas interpolates linearly; float rounding is not modelled);     *)
(*   - Python's None is the empty sequence and a float score x is <<x>>,   *)
(*     so that a score is always comparable with another score.            *)
(***************************************************************************)
EXTENDS Integers, Sequences, FiniteSets, TLC

VARIABLES
    \* inputs and outputs of rules.state_from_quantiles
    history, history2, asof_in, value, high_is_riskoff, qres, qres2,
    \* inputs and outputs of rules.structure_state_from_slope
    slope, flat_band, sres,
    \* the indicator states handed to the regime aggregation, and its two results
    states, snap_regime, ing_regime,
    \* today_utc_date(), the Observation / IndicatorState / RegimeState tables
    today, observation, indicator_state, regime_state,
    \* the last ingest_and_compute run and the last build_snapshot call
    ingest_out, snapshot, runs, advances,
    \* the arguments and the result of the other pure functions a specification applies
    args, ret,
    \* the database engine, the open SQLAlchemy session, the values handed to
    \* _upsert_observations so far and the outcome of the last db.commit()
    engine, session, written, last_commit,
    \* position of the specification that applies a pure function
    pc

ruleVars == <<history, history2, asof_in, value, high_is_riskoff, qres, qres2>>
slopeVars == <<slope, flat_band, sres>>
aggVars == <<states, snap_regime, ing_regime>>
storeVars == <<today, observation, indicator_state, regime_state, ingest_out, snapshot,
               runs, advances>>
callVars == <<args, ret>>
upsertVars == <<engine, session, written, last_commit>>
vars == <<ruleVars, slopeVars, aggVars, storeVars, callVars, upsertVars, pc>>

None == << >>
Some(x) == <<x>>

(***************************************************************************)
(* Program constants                                                       *)
(***************************************************************************)
MinObs == 60
WindowDays == 365 * 3
FlatBandDefault == 25
Q90 == 90
Q95 == 95

(***************************************************************************)
(* Bounds of the model                                                     *)
(***************************************************************************)
ExtraObs == 1
MaxSlope == 60

(***************************************************************************)
(* pandas helpers                                                          *)
(***************************************************************************)
EmptySeries == << >>

\* a Series holds its values: the function f with every entry computed once
Eager(f) == f @@ EmptySeries

\* history.loc[(history.index >= start) & (history.index < end)]: the dates kept
WindowDates(h, start, end) == {d \in DOMAIN h : d >= start /\ d < end}

\* 0-based order statistic of the values of h on the dates W
KthSmallest(h, W, k) ==
    LET vals == {h[d] : d \in W}
    IN  CHOOSE v \in vals :
            /\ Cardinality({d \in W : h[d] <= v}) >= k + 1
            /\ Cardinality({d \in W : h[d] < v}) <= k

\* Series.quantile(q) with linear interpolation, q in percent, result in hundredths
Quantile100(h, W, q) ==
    LET n == Cardinality(W)
        pos == (n - 1) * q
        i == pos \div 100
        f == pos % 100
        lo == KthSmallest(h, W, i)
        hi == IF f = 0 THEN lo ELSE KthSmallest(h, W, i + 1)
    IN  100 * lo + f * (hi - lo)

(***************************************************************************)
(* rules.py                                                                *)
(***************************************************************************)
\* _rolling_window_days
RollingWindowDays(asof, days) == <<asof - days, asof>>

QuantileWindowInclusive(h, asof, window_days) ==
    LET w == RollingWindowDays(asof, window_days)
    IN  {d \in DOMAIN h : d >= w[1] /\ d <= w[2]}

\* the window of quantile_thresholds: [asof - window_days, asof)
QuantileWindow(h, asof, window_days) ==
    LET w == RollingWindowDays(asof, window_days)
    IN  WindowDates(h, w[1], w[2])

EnoughObsOffByOne(n) == ~(n <= MinObs)

\* the guard of quantile_thresholds: not (window.shape[0] < 60)
EnoughObs(n) == ~(n < MinObs)

\* quantile_thresholds: None, or the pair of thresholds (hundredths)
quantile_thresholds(h, asof, window_days, qs) ==
    LET W == QuantileWindow(h, asof, window_days)
    IN  IF ~EnoughObs(Cardinality(W)) THEN None
        ELSE Some(<<Quantile100(h, W, qs[1]), Quantile100(h, W, qs[2])>>)

\* the mutant: every classified state carries the severity of Green
ClassifiedSeverityZero(st, sc, q1, q2, v) ==
    [state |-> st, score |-> Some(0), details |-> [q1 |-> q1, q2 |-> q2, value |-> v]]

Classified(st, sc, q1, q2, v) ==
    [state |-> st, score |-> Some(sc), details |-> [q1 |-> q1, q2 |-> q2, value |-> v]]

HighBranchSwapped(v, q1, q2) ==
    IF 100 * v >= q1 THEN Classified("R", 2, q1, q2, v)
    ELSE IF 100 * v >= q2 THEN Classified("Y", 1, q1, q2, v)
    ELSE Classified("G", 0, q1, q2, v)

\* state_from_quantiles, high_is_riskoff branch (lines 35-40)
HighBranch(v, q1, q2) ==
    IF 100 * v >= q2 THEN Classified("R", 2, q1, q2, v)
    ELSE IF 100 * v >= q1 THEN Classified("Y", 1, q1, q2, v)
    ELSE Classified("G", 0, q1, q2, v)

\* state_from_quantiles, low-is-risk-off branch (lines 42-47)
LowBranch(v, q1, q2) ==
    IF 100 * v <= q2 THEN Classified("R", 2, q1, q2, v)
    ELSE IF 100 * v <= q1 THEN Classified("Y", 1, q1, q2, v)
    ELSE Classified("G", 0, q1, q2, v)

\* state_from_quantiles, lines 29-47: th is the result of quantile_thresholds
StateFromThresholds(th, v, high) ==
    IF th = None
    THEN [state |-> "U", score |-> None, details |-> [reason |-> "insufficient_history"]]
    ELSE IF high THEN HighBranch(v, th[1][1], th[1][2])
         ELSE LowBranch(v, th[1][1], th[1][2])

state_from_quantiles(h, asof, v, window_days, qs, high) ==
    StateFromThresholds(quantile_thresholds(h, asof, window_days, qs), v, high)

StructureLowerExclusive(s, band) ==
    IF s > band
    THEN [state |-> "R", score |-> Some(2), details |-> [slope |-> s, structure |-> "backwardation"]]
    ELSE IF s > -band
    THEN [state |-> "Y", score |-> Some(1), details |-> [slope |-> s, structure |-> "flat"]]
    ELSE [state |-> "G", score |-> Some(0), details |-> [slope |-> s, structure |-> "contango"]]

structure_state_from_slope(s, band) ==
    IF s > band
    THEN [state |-> "R", score |-> Some(2), details |-> [slope |-> s, structure |-> "backwardation"]]
    ELSE IF s >= -band
    THEN [state |-> "Y", score |-> Some(1), details |-> [slope |-> s, structure |-> "flat"]]
    ELSE [state |-> "G", score |-> Some(0), details |-> [slope |-> s, structure |-> "contango"]]

(***************************************************************************)
(* allocations.py                                                          *)
(***************************************************************************)
\* the mutant: the Risk-Off template holds 0.30 instead of 0.25 of equity and 0.40
\* instead of 0.36 of defensives
TemplatesRiskOffHeavy ==
    [n \in {"Risk-On", "Neutral", "Risk-Off"} |->
        CASE n = "Risk-On" ->
               [name |-> "Risk-On",
                asset_class_weights |-> <<60, 10, 15, 5, 10>>,
                equity_bucket_weights |-> <<25, 15, 15, 12, 8, 8, 10, 7>>,
                overlays |-> <<20>>]
          [] n = "Neutral" ->
               [name |-> "Neutral",
                asset_class_weights |-> <<45, 20, 15, 10, 10>>,
                equity_bucket_weights |-> <<18, 10, 12, 12, 8, 6, 14, 20>>,
                overlays |-> <<50>>]
          [] n = "Risk-Off" ->
               [name |-> "Risk-Off",
                asset_class_weights |-> <<30, 40, 5, 20, 10>>,
                equity_bucket_weights |-> <<12, 5, 8, 8, 5, 4, 22, 40>>,
                overlays |-> <<90>>]]

\* TEMPLATES, weights in hundredths
TEMPLATES ==
    [n \in {"Risk-On", "Neutral", "Risk-Off"} |->
        CASE n = "Risk-On" ->
               [name |-> "Risk-On",
                asset_class_weights |-> <<60, 10, 15, 5, 10>>,
                equity_bucket_weights |-> <<25, 15, 15, 12, 8, 8, 10, 7>>,
                overlays |-> <<20>>]
          [] n = "Neutral" ->
               [name |-> "Neutral",
                asset_class_weights |-> <<45, 20, 15, 10, 10>>,
                equity_bucket_weights |-> <<18, 10, 12, 12, 8, 6, 14, 20>>,
                overlays |-> <<50>>]
          [] n = "Risk-Off" ->
               [name |-> "Risk-Off",
                asset_class_weights |-> <<25, 40, 5, 20, 10>>,
                equity_bucket_weights |-> <<12, 5, 8, 8, 5, 4, 22, 36>>,
                overlays |-> <<90>>]]

\* the mutant: regime C has no template
TemplateForRegimeWithoutC(regime) ==
    IF regime = "A" THEN Some(TEMPLATES["Risk-On"])
    ELSE IF regime = "B" THEN Some(TEMPLATES["Neutral"])
    ELSE None

template_for_regime(regime) ==
    IF regime = "A" THEN Some(TEMPLATES["Risk-On"])
    ELSE IF regime = "B" THEN Some(TEMPLATES["Neutral"])
    ELSE IF regime = "C" THEN Some(TEMPLATES["Risk-Off"])
    ELSE None

(***************************************************************************)
(* Regime A/B/C from the indicator states.  `sts` is the dict `states` of  *)
(* build_snapshot / ingest_and_compute: indicator key -> <<state, score>>. *)
(***************************************************************************)
ScoreUnknownAsRed(st) == IF st = "G" THEN 0 ELSE IF st = "Y" THEN 1 ELSE 2

\* the mutant: Red scores below Yellow
ScoreRedBelowYellow(st) == IF st = "G" THEN 0 ELSE IF st = "Y" THEN 2 ELSE IF st = "R" THEN 1 ELSE 0

\* _score
Score(st) == IF st = "G" THEN 0 ELSE IF st = "Y" THEN 1 ELSE IF st = "R" THEN 2 ELSE 0

FixedCoreKeys == {"synthetic_liquidity", "credit_spread", "funding_stress"}

\* vix_key
VixKey(sts) ==
    IF "vix_structure" \in DOMAIN sts THEN Some("vix_structure")
    ELSE IF "vix_level" \in DOMAIN sts THEN Some("vix_level")
    ELSE None

\* {k: states.get(k, ("U", None))[0] for k in core_keys}
CoreStates(sts, core_keys) ==
    [k \in core_keys |-> IF k \in DOMAIN sts THEN sts[k][1] ELSE "U"]

CountState(cs, st) == Cardinality({k \in DOMAIN cs : cs[k] = st})

RECURSIVE SumScores(_, _)
SumScores(cs, keys) ==
    IF keys = {} THEN 0
    ELSE LET k == CHOOSE x \in keys : TRUE
         IN  Score(cs[k]) + SumScores(cs, keys \ {k})

\* core_states.get(vix_key) == "R"
VixIsRed(cs, vix_key) == vix_key # None /\ vix_key[1] \in DOMAIN cs /\ cs[vix_key[1]] = "R"

\* build_snapshot, lines 233-240: the core keys that are in states
SnapshotCoreKeys(sts) ==
    {k \in FixedCoreKeys : k \in DOMAIN sts} \cup
        (IF VixKey(sts) # None THEN {VixKey(sts)[1]} ELSE {})

\* build_snapshot, lines 250-255
SnapshotRegimeCode(cs, vix_key) ==
    IF CountState(cs, "G") = Cardinality(DOMAIN cs) THEN "A"
    ELSE IF CountState(cs, "R") >= 3 \/ (CountState(cs, "R") >= 2 /\ VixIsRed(cs, vix_key)) THEN "C"
    ELSE "B"

\* build_snapshot, lines 229-278: the regime and the allocation of the snapshot
SnapshotRegime(sts, asof) ==
    LET core_keys == SnapshotCoreKeys(sts)
        vix_key == VixKey(sts)
        core_states == CoreStates(sts, core_keys)
        reds == CountState(core_states, "R")
        greens == CountState(core_states, "G")
    IN  IF Cardinality(core_keys) >= 3
        THEN LET regime_code == SnapshotRegimeCode(core_states, vix_key)
                 risk_score == SumScores(core_states, core_keys)
                 tmpl == template_for_regime(regime_code)
                 template_name == IF tmpl # None THEN tmpl[1].name ELSE regime_code
             IN  [regime |-> Some([date |-> asof, regime |-> regime_code,
                                   risk_score |-> risk_score,
                                   template_name |-> template_name,
                                   drivers |-> [core |-> core_states, reds |-> reds,
                                                greens |-> greens]]),
                  allocation |-> IF tmpl # None
                                 THEN Some([template_name |-> tmpl[1].name,
                                            asset_class_weights |-> tmpl[1].asset_class_weights,
                                            equity_bucket_weights |-> tmpl[1].equity_bucket_weights,
                                            overlays |-> tmpl[1].overlays])
                                 ELSE None]
        ELSE [regime |-> None, allocation |-> None]

\* ingest_and_compute, lines 436-439: the three fixed keys, present or not
IngestCoreKeys(sts) ==
    FixedCoreKeys \cup (IF VixKey(sts) # None THEN {VixKey(sts)[1]} ELSE {})

\* ingest_and_compute, lines 445-450
IngestRegimeCode(cs, vix_key) ==
    IF CountState(cs, "G") = Cardinality(DOMAIN cs) /\ Cardinality(DOMAIN cs) >= 3 THEN "A"
    ELSE IF CountState(cs, "R") >= 3 \/ (CountState(cs, "R") >= 2 /\ VixIsRed(cs, vix_key)) THEN "C"
    ELSE "B"

\* ingest_and_compute, lines 431-457: the RegimeState row written (None when no row
\* is written) and the values returned
IngestRegime(sts, asof) ==
    LET core_keys == IngestCoreKeys(sts)
        vix_key == VixKey(sts)
        core_states == CoreStates(sts, core_keys)
        reds == CountState(core_states, "R")
        greens == CountState(core_states, "G")
        regime == IngestRegimeCode(core_states, vix_key)
        risk_score == SumScores(core_states, core_keys)
        drivers == [core |-> core_states, reds |-> reds, greens |-> greens]
        tmpl == template_for_regime(regime)
    IN  [row |-> IF tmpl # None
                 THEN Some([date |-> asof, regime |-> regime, risk_score |-> risk_score,
                            template_name |-> tmpl[1].name, drivers |-> drivers])
                 ELSE None,
         regime |-> regime, risk_score |-> risk_score, core_states |-> core_states]

(***************************************************************************)
(* The observation store and snapshot_logic.py.  `obs` is the Observation  *)
(* table: indicator key -> Series (the unique (indicator_key, date) rows). *)
(***************************************************************************)
LoadDays == 365 * 5
LongLoadDays == 365 * 6
TertileWindowDays == 365 * 3

SetMin(S) == CHOOSE x \in S : \A y \in S : x <= y
SetMax(S) == -SetMin({-x : x \in S})

Restrict(s, D) == Eager([d \in D |-> s[d]])

\* the dict {k: v} when opt = Some(v), the empty dict when opt = None
Entry(k, opt) == IF opt = None THEN << >> ELSE (k :> opt[1])

\* the mutant: the latest stored date, whether or not it is after asof
MaxDateOfAll(obs, indicator_key, asof) ==
    LET D == DOMAIN obs[indicator_key]
    IN  IF D = {} THEN None ELSE Some(SetMax(D))

\* _max_date_leq
max_date_leq(obs, indicator_key, asof) ==
    LET D == {d \in DOMAIN obs[indicator_key] : d <= asof}
    IN  IF D = {} THEN None ELSE Some(SetMax(D))

\* _load_history_asof: the rows dated in [asof - days, asof]
load_history_asof(obs, indicator_key, asof, days) ==
    Restrict(obs[indicator_key],
             {d \in DOMAIN obs[indicator_key] : d >= asof - days /\ d <= asof})

\* the mutant: the as-of date is the end date itself, which follows the clock
ChooseAsofIsEnd(obs, requested_asof, now) ==
    IF \A k \in {"walcl", "hy_oas", "funding_spread", "vix_slope", "vix"} :
          DOMAIN obs[k] = {}
    THEN None
    ELSE Some(IF requested_asof # None THEN requested_asof[1] ELSE now)

\* _choose_effective_asof; `now` is today_utc_date()
choose_effective_asof(obs, requested_asof, now) ==
    LET end == IF requested_asof # None THEN requested_asof[1] ELSE now
        has_vix_slope == max_date_leq(obs, "vix_slope", end) # None
        has_funding_spread == max_date_leq(obs, "funding_spread", end) # None
        core_sources == {"walcl", "hy_oas"}
                          \cup (IF has_funding_spread THEN {"funding_spread"} ELSE {})
                          \cup {IF has_vix_slope THEN "vix_slope" ELSE "vix"}
        max_dates == {max_date_leq(obs, k, end)[1] :
                        k \in {x \in core_sources : max_date_leq(obs, x, end) # None}}
    IN  IF max_dates = {} THEN None ELSE Some(SetMin(max_dates))

AlignAsofStrictlyBefore(base, other) ==
    IF DOMAIN base = {} THEN EmptySeries
    ELSE IF DOMAIN other = {} THEN [d \in DOMAIN base |-> None]
    ELSE Eager([d \in DOMAIN base |->
                  LET E == {e \in DOMAIN other : e < d}
                  IN  IF E = {} THEN None ELSE Some(other[SetMax(E)])])

\* _align_asof: over base's dates, Some(latest value of other at or before the date)
\* or None (NaN) when other has none
align_asof(base, other) ==
    IF DOMAIN base = {} THEN EmptySeries
    ELSE IF DOMAIN other = {} THEN [d \in DOMAIN base |-> None]
    ELSE Eager([d \in DOMAIN base |->
                  LET E == {e \in DOMAIN other : e <= d}
                  IN  IF E = {} THEN None ELSE Some(other[SetMax(E)])])

\* rrp_a.fillna(0.0)
FillNa0(a) == Eager([d \in DOMAIN a |-> IF a[d] = None THEN Some(0) ELSE a[d]])

\* the date of s just before d, if any
PrevDate(D, d) ==
    LET E == {e \in D : e < d} IN IF E = {} THEN None ELSE Some(SetMax(E))

\* the mutant: the first date with a level keeps a delta, its level minus 0
DiffFirstAgainstZero(level) ==
    LET D == {d \in DOMAIN level : level[d] # None}
    IN  Eager([d \in D |-> IF PrevDate(D, d) = None THEN level[d][1]
                           ELSE level[d][1] - level[PrevDate(D, d)[1]][1]])

\* level.diff(1).dropna() for a level with NaN (None) entries
DiffDropNa(level) ==
    LET D == DOMAIN level
        ok == {d \in D : /\ level[d] # None
                          /\ PrevDate(D, d) # None
                          /\ level[PrevDate(D, d)[1]] # None}
    IN  Eager([d \in ok |-> level[d][1] - level[PrevDate(D, d)[1]][1]])

\* _synthetic_liquidity_delta_w
synthetic_liquidity_delta_w(obs, asof) ==
    LET walcl == load_history_asof(obs, "walcl", asof, LongLoadDays)
    IN  IF DOMAIN walcl = {} THEN EmptySeries
        ELSE LET tga == load_history_asof(obs, "tga", asof, LongLoadDays)
                 rrp == load_history_asof(obs, "rrp", asof, LongLoadDays)
                 tga_a == align_asof(walcl, tga)
                 rrp_a == FillNa0(align_asof(walcl, rrp))
                 level == Eager([d \in DOMAIN walcl |->
                                   IF tga_a[d] = None THEN None
                                   ELSE Some(walcl[d] - tga_a[d][1] - rrp_a[d][1])])
             IN  DiffDropNa(level)

\* the liquidity-direction state (33/66 quantiles of a 3 year window), the same code
\* in build_snapshot (lines 154-168) and ingest_and_compute (lines 352-370)
TertileState(st, sc, val, q_lo, q_hi, l) ==
    [state |-> st, score |-> Some(sc),
     details |-> [value |-> val, q_lo |-> q_lo, q_hi |-> q_hi, label |-> l]]

\* the mutant: the Red test comes before the Green test
StateFromTertilesRedFirst(val, q_lo, q_hi) ==
    IF 100 * val <= q_lo THEN TertileState("R", 2, val, q_lo, q_hi, "net_withdraw")
    ELSE IF 100 * val >= q_hi THEN TertileState("G", 0, val, q_lo, q_hi, "net_inject")
    ELSE TertileState("Y", 1, val, q_lo, q_hi, "flat")

\* the comparison of the value with the tertiles (hundredths)
StateFromTertiles(val, q_lo, q_hi) ==
    IF 100 * val >= q_hi THEN TertileState("G", 0, val, q_lo, q_hi, "net_inject")
    ELSE IF 100 * val <= q_lo THEN TertileState("R", 2, val, q_lo, q_hi, "net_withdraw")
    ELSE TertileState("Y", 1, val, q_lo, q_hi, "flat")

LiquidityState(liq_hist, asof) ==
    IF DOMAIN liq_hist # {} /\ asof \in DOMAIN liq_hist
    THEN LET window == WindowDates(liq_hist, asof - TertileWindowDays, asof)
         IN  IF Cardinality(window) >= MinObs
             THEN Some(StateFromTertiles(liq_hist[asof],
                                         Quantile100(liq_hist, window, 33),
                                         Quantile100(liq_hist, window, 66)))
             ELSE Some([state |-> "U", score |-> None,
                        details |-> [reason |-> "insufficient_history"]])
    ELSE None

\* {**details, "proxy": p}
WithProxy(r, p) == [r EXCEPT !.details = @ @@ [proxy |-> p]]

\* the entry of an indicator classified on a proxy series, if it has a state
ProxyEntry(k, r, p) == Entry(k, IF r = None THEN None ELSE Some(WithProxy(r[1], p)))

\* a quantile-classified indicator: absent unless hist has a row on asof
QuantileState(hist, asof) ==
    IF DOMAIN hist # {} /\ asof \in DOMAIN hist
    THEN Some(state_from_quantiles(hist, asof, hist[asof], WindowDays, <<Q90, Q95>>, TRUE))
    ELSE None

\* the volatility member of build_snapshot (lines 191-202): structure if a slope row
\* exists on asof, else the level
VolState(slope_hist, vix_hist, asof) ==
    IF DOMAIN slope_hist # {} /\ asof \in DOMAIN slope_hist
    THEN Entry("vix_structure",
               Some(structure_state_from_slope(slope_hist[asof], FlatBandDefault)))
    ELSE ProxyEntry("vix_level", QuantileState(vix_hist, asof), "vix")

SnapshotVolState(obs, asof) ==
    VolState(load_history_asof(obs, "vix_slope", asof, LoadDays),
             load_history_asof(obs, "vix", asof, LoadDays), asof)

\* the dates of D in increasing order (s.sort_index())
SortedDates(D) ==
    IF D = {} THEN << >>
    ELSE LET lo == SetMin(D)
             hi == SetMax(D)
         IN  SelectSeq([i \in 1..(hi - lo + 1) |-> lo + i - 1], LAMBDA x : x \in D)

\* s.pct_change(periods=60).dropna(), in 1/10000 (truncated): defined from the 61st row
PctChange60(s) ==
    LET ds == SortedDates(DOMAIN s)
        n == Len(ds)
    IN  Eager([d \in {ds[j] : j \in 61..n} |->
                  LET j == CHOOSE x \in 61..n : ds[x] = d
                  IN  (10000 * s[d]) \div s[ds[j - 60]] - 10000])

\* the USD 60 day return state (build_snapshot lines 205-215, ingest lines 414-429)
\* the state of the 60 day return on asof, with the return in its details
ReturnState(rets, asof) ==
    [state_from_quantiles(rets, asof, rets[asof], WindowDays, <<Q90, Q95>>, TRUE)
        EXCEPT !.details = @ @@ [return_60d |-> rets[asof]]]

UsdState(usd_hist, asof) ==
    IF DOMAIN usd_hist # {} /\ asof \in DOMAIN usd_hist
    THEN IF Cardinality(DOMAIN usd_hist) > 70
         THEN IF Cardinality({d \in DOMAIN usd_hist : d < asof}) >= 60
              THEN Some(ReturnState(PctChange60(usd_hist), asof))
              ELSE None
         ELSE None
    ELSE None

RECURSIVE ISqrtFrom(_, _, _)
ISqrtFrom(n, lo, hi) ==
    IF lo >= hi THEN lo
    ELSE LET mid == (lo + hi + 1) \div 2
         IN  IF mid * mid <= n THEN ISqrtFrom(n, mid, hi) ELSE ISqrtFrom(n, lo, mid - 1)

\* floor of the square root (46340 * 46340 is the largest square of a 32 bit integer)
ISqrt(n) == ISqrtFrom(n, 0, IF n < 46340 THEN n ELSE 46340)

RECURSIVE SeqSum(_, _, _)
SeqSum(f, lo, hi) == IF lo > hi THEN 0 ELSE f[lo] + SeqSum(f, lo + 1, hi)

\* dgs10.dropna().diff().dropna() as a sequence of <<date, change>>
ChangesSeq(s) ==
    LET ds == SortedDates(DOMAIN s)
    IN  Eager([i \in 1..(Len(ds) - 1) |-> <<ds[i + 1], s[ds[i + 1]] - s[ds[i]]>>])

\* realized_vol_annualized(changes, window).dropna(): the sample standard deviation of
\* the last `window` changes times sqrt(252), in hundredths (truncated)
realized_vol_annualized(changes, window) ==
    LET n == Len(changes)
        x == Eager([i \in 1..n |-> changes[i][2]])
        xx == Eager([i \in 1..n |-> changes[i][2] * changes[i][2]])
        rv(i) == LET sm == SeqSum(x, i - window + 1, i)
                     sq == SeqSum(xx, i - window + 1, i)
                 IN  ISqrt((252 * 10000 * (window * sq - sm * sm)) \div (window * (window - 1)))
    IN  Eager([d \in {changes[i][1] : i \in window..n} |->
                  rv(CHOOSE i \in window..n : changes[i][1] = d)])

\* build_snapshot, lines 137-227: indicator key -> [state, score, details]
\* lines 218-227: without a stored volatility row on asof, the volatility computed
\* from DGS10
TreasuryVolFallback(dgs10, asof) ==
    IF DOMAIN dgs10 # {} /\ asof \in DOMAIN dgs10
    THEN Entry("treasury_vol",
               QuantileState(realized_vol_annualized(ChangesSeq(dgs10), 20), asof))
    ELSE << >>

\* the mutant: the treasury block is skipped when no VIX level is stored
TreasuryVolStateAfterVix(tvol, obs, asof) ==
    IF DOMAIN obs["vix"] = {} THEN << >>
    ELSE IF DOMAIN tvol # {} THEN tvol
    ELSE TreasuryVolFallback(load_history_asof(obs, "dgs10", asof, LongLoadDays), asof)

TreasuryVolState(tvol, obs, asof) ==
    IF DOMAIN tvol # {} THEN tvol
    ELSE TreasuryVolFallback(load_history_asof(obs, "dgs10", asof, LongLoadDays), asof)

\* build_snapshot, lines 152-227, block by block: the entries each block adds to
\* `indicators`
LiquidityBlock(obs, asof) ==
    Entry("synthetic_liquidity", LiquidityState(synthetic_liquidity_delta_w(obs, asof), asof))

CreditBlock(obs, asof) ==
    ProxyEntry("credit_spread",
               QuantileState(load_history_asof(obs, "hy_oas", asof, LoadDays), asof),
               "hy_oas")

FundingBlock(obs, asof) ==
    Entry("funding_stress",
          QuantileState(load_history_asof(obs, "funding_spread", asof, LoadDays), asof))

TreasuryBlock(obs, asof) ==
    TreasuryVolState(
        Entry("treasury_vol",
              QuantileState(load_history_asof(obs, "treasury_realized_vol_20d", asof,
                                              LoadDays), asof)),
        obs, asof)

UsdBlock(obs, asof) ==
    Entry("usd_strength",
          UsdState(load_history_asof(obs, "usd_twi_broad", asof, LongLoadDays), asof))

SnapshotIndicators(obs, asof) ==
    LiquidityBlock(obs, asof)
      @@ CreditBlock(obs, asof)
      @@ FundingBlock(obs, asof)
      @@ TreasuryBlock(obs, asof)
      @@ SnapshotVolState(obs, asof)
      @@ UsdBlock(obs, asof)

\* states[indicator_key] = (state, score)
StatesOf(indicators) == [k \in DOMAIN indicators |-> <<indicators[k].state, indicators[k].score>>]

\* build_snapshot: "error" stands for the ValueError raised when no as-of date exists
SnapshotResponse(asof, indicators, agg) ==
    [asof |-> asof, indicators |-> indicators,
     regime |-> agg.regime, allocation |-> agg.allocation]

SnapshotOf(asof, indicators) ==
    SnapshotResponse(asof, indicators, SnapshotRegime(StatesOf(indicators), asof))

SnapshotAsOf(obs, asof) ==
    IF asof = None THEN [error |-> "No observations available yet"]
    ELSE SnapshotOf(asof[1], SnapshotIndicators(obs, asof[1]))

build_snapshot(obs, requested_asof, now) ==
    SnapshotAsOf(obs, choose_effective_asof(obs, requested_asof, now))

(***************************************************************************)
(* sources/fred.py and ingest.py.  `fetched` is the dict of the series     *)
(* fetched without error: base key -> Series.  The IndicatorState and      *)
(* RegimeState tables are sets of rows.                                    *)
(***************************************************************************)
BaseKeys == {"walcl", "tga", "rrp", "sofr", "effr", "iorb", "dgs10", "vix", "vxv",
             "hy_oas", "usd_twi_broad"}

DerivedKeys == {"synthetic_liquidity_level", "synthetic_liquidity_delta_w", "funding_spread",
                "treasury_realized_vol_20d", "vix_slope"}

ObsKeys == BaseKeys \cup DerivedKeys

\* align_on_dates(*series): `common` after the loop of lines 37-40 over series i..n
RECURSIVE CommonDates(_, _, _)
CommonDates(series, i, common) ==
    IF i > Len(series) THEN common
    ELSE CommonDates(series, i + 1,
                     IF common = None THEN Some(DOMAIN series[i])
                     ELSE Some(common[1] \cap DOMAIN series[i]))

\* align_on_dates: every series restricted to the common dates (`common or []`)
align_on_dates(series) ==
    LET common == CommonDates(series, 1, None)
        dates == IF common = None THEN {} ELSE common[1]
    IN  [i \in DOMAIN series |-> Restrict(series[i], dates)]

\* the mutant: the second series is taken as of each date of the first
DiffBackwardAligned(a, b) ==
    Eager([d \in {x \in DOMAIN a : \E e \in DOMAIN b : e <= x} |->
             a[d] - b[SetMax({e \in DOMAIN b : e <= d})]])

\* align_on_dates followed by the elementwise difference a - b
DiffOnCommonDates(a, b) == Eager([d \in DOMAIN a \cap DOMAIN b |-> a[d] - b[d]])

\* _upsert_observations: the Series of the key after the upsert (no NaN is fetched)
upsert_observations(old, series) ==
    Eager([d \in DOMAIN old \cup DOMAIN series |->
             IF d \in DOMAIN series THEN series[d] ELSE old[d]])

\* ingest_and_compute, lines 139-160: the level on the WALCL dates that have a TGA
\* value as of the date
IngestLiquidityLevel(fetched) ==
    LET walcl == fetched["walcl"]
        tga == fetched["tga"]
        rrp == IF "rrp" \in DOMAIN fetched THEN fetched["rrp"] ELSE EmptySeries
        tga_a == Eager([d \in DOMAIN walcl |->
                          LET E == {e \in DOMAIN tga : e <= d}
                          IN  IF E = {} THEN None ELSE Some(tga[SetMax(E)])])
        rrp_a == Eager([d \in DOMAIN walcl |->
                          LET E == {e \in DOMAIN rrp : e <= d}
                          IN  IF E = {} THEN 0 ELSE rrp[SetMax(E)]])
    IN  Eager([d \in {x \in DOMAIN walcl : tga_a[x] # None} |->
                  walcl[d] - tga_a[d][1] - rrp_a[d]])

\* level.diff(1).dropna() of a Series without NaN
Diff1(level) ==
    LET D == DOMAIN level
    IN  Eager([d \in {x \in D : PrevDate(D, x) # None} |-> level[d] - level[PrevDate(D, d)[1]]])

\* ingest_and_compute, lines 136-190: the derived series built from `fetched`
\* (a key is absent when its inputs were not all fetched)
IngestDerived(fetched) ==
    LET F == DOMAIN fetched
        liq == IF {"walcl", "tga"} \subseteq F
               THEN LET level == IngestLiquidityLevel(fetched)
                    IN  ("synthetic_liquidity_level" :> level)
                          @@ ("synthetic_liquidity_delta_w" :> Diff1(level))
               ELSE << >>
        fund == IF "sofr" \in F /\ ("iorb" \in F \/ "effr" \in F)
                THEN LET base == IF "iorb" \in F THEN fetched["iorb"] ELSE fetched["effr"]
                     IN  ("funding_spread" :> DiffOnCommonDates(fetched["sofr"], base))
                ELSE << >>
        vs == IF "vix" \in F /\ "vxv" \in F
              THEN ("vix_slope" :> DiffOnCommonDates(fetched["vix"], fetched["vxv"]))
              ELSE << >>
        rv == IF "dgs10" \in F
              THEN ("treasury_realized_vol_20d" :>
                       realized_vol_annualized(ChangesSeq(fetched["dgs10"]), 20))
              ELSE << >>
    IN  liq @@ fund @@ vs @@ rv

\* the Observation table after the upserts committed at line 192
UpsertAll(obs, w) ==
    Eager([k \in ObsKeys |->
             IF k \in DOMAIN w THEN upsert_observations(obs[k], w[k]) ELSE obs[k]])

IngestObservations(obs, fetched) == UpsertAll(obs, fetched @@ IngestDerived(fetched))

\* _load_history: the rows dated from today - days on
load_history(obs, indicator_key, now, days) ==
    Restrict(obs[indicator_key], {d \in DOMAIN obs[indicator_key] : d >= now - days})

\* ingest_and_compute, lines 318-328
IngestAsof(obs, fetched) ==
    LET core_source_keys == {"synthetic_liquidity_delta_w", "hy_oas", "funding_spread",
                             IF "vxv" \in DOMAIN fetched THEN "vix_slope" ELSE "vix"}
        max_dates == {SetMax(DOMAIN obs[k]) : k \in {x \in core_source_keys : DOMAIN obs[x] # {}}}
    IN  IF max_dates = {} THEN None ELSE Some(SetMin(max_dates))

\* the volatility member of ingest_and_compute (lines 398-411)
IngestVolState(obs, asof, now) ==
    VolState(load_history(obs, "vix_slope", now, LoadDays),
             load_history(obs, "vix", now, LoadDays), asof)

\* ingest_and_compute, lines 348-429: indicator key -> [state, score, details]
IngestIndicators(obs, asof, now) ==
    Entry("synthetic_liquidity",
          LiquidityState(load_history(obs, "synthetic_liquidity_delta_w", now, LoadDays), asof))
      @@ ProxyEntry("credit_spread",
                    QuantileState(load_history(obs, "hy_oas", now, LoadDays), asof), "hy_oas")
      @@ Entry("funding_stress",
               QuantileState(load_history(obs, "funding_spread", now, LoadDays), asof))
      @@ Entry("treasury_vol",
               QuantileState(load_history(obs, "treasury_realized_vol_20d", now, LoadDays), asof))
      @@ IngestVolState(obs, asof, now)
      @@ Entry("usd_strength",
               UsdState(load_history(obs, "usd_twi_broad", now, LoadDays), asof))

\* _write_indicator_state for every key of `indicators`: select, then insert or update
write_indicator_states(rows, indicators, date) ==
    {r \in rows : ~(r.date = date /\ r.indicator_key \in DOMAIN indicators)}
        \cup {[indicator_key |-> k, date |-> date, state |-> indicators[k].state,
               score |-> indicators[k].score, details |-> indicators[k].details] :
                 k \in DOMAIN indicators}

\* the mutant: the row is added without selecting the stored row of the date
WriteRegimeStateAlwaysAdd(rows, row) == rows \cup {row}

\* _write_regime_state: select, then insert or update
write_regime_state(rows, row) ==
    {r \in rows : r.date # row.date} \cup {row}

\* ingest_and_compute with CN_INDUSTRIES_ENABLED off: the tables after the run, the
\* indicator states computed (`states`), the RegimeState row written and the dict returned
\* lines 431-477: the rows written and the dict returned once the states are known
IngestResult(obs1, ind_rows, reg_rows, fetched, errors, asof, indicators, agg) ==
    [observation |-> obs1,
     indicator_state |-> write_indicator_states(ind_rows, indicators, asof),
     regime_state |-> IF agg.row # None THEN write_regime_state(reg_rows, agg.row[1])
                      ELSE reg_rows,
     states |-> indicators, regime_row |-> agg.row,
     out |-> [base_series_fetched |-> DOMAIN fetched, errors |-> errors,
              asof |-> Some(asof), regime |-> Some(agg.regime),
              risk_score |-> Some(agg.risk_score), core_states |-> agg.core_states]]

IngestClassified(obs1, ind_rows, reg_rows, fetched, errors, asof, indicators) ==
    IngestResult(obs1, ind_rows, reg_rows, fetched, errors, asof, indicators,
                 IngestRegime(StatesOf(indicators), asof))

\* lines 318-335: no as-of date, nothing is classified or written
IngestAsOf(obs1, ind_rows, reg_rows, fetched, errors, now, asof) ==
    IF asof = None
    THEN [observation |-> obs1, indicator_state |-> ind_rows, regime_state |-> reg_rows,
          states |-> << >>, regime_row |-> None,
          out |-> [base_series_fetched |-> DOMAIN fetched, errors |-> errors,
                   asof |-> None, regime |-> None, risk_score |-> None,
                   core_states |-> << >>]]
    ELSE IngestClassified(obs1, ind_rows, reg_rows, fetched, errors, asof[1],
                          IngestIndicators(obs1, asof[1], now))

IngestCommitted(obs1, ind_rows, reg_rows, fetched, errors, now) ==
    IngestAsOf(obs1, ind_rows, reg_rows, fetched, errors, now, IngestAsof(obs1, fetched))

ingest_and_compute(obs, ind_rows, reg_rows, fetched, errors, now) ==
    IngestCommitted(IngestObservations(obs, fetched), ind_rows, reg_rows, fetched, errors, now)

(***************************************************************************)
(* The variables a specification does not use keep these values.           *)
(***************************************************************************)
EmptyStore == [k \in ObsKeys |-> EmptySeries]

StoreIdle ==
    /\ today = 0
    /\ observation = EmptyStore
    /\ indicator_state = {}
    /\ regime_state = {}
    /\ ingest_out = None
    /\ snapshot = None
    /\ runs = 0
    /\ advances = 0

RulesIdle ==
    /\ history = EmptySeries
    /\ history2 = EmptySeries
    /\ asof_in = 0
    /\ value = 0
    /\ high_is_riskoff = TRUE
    /\ qres = None
    /\ qres2 = None
    /\ slope = 0
    /\ flat_band = FlatBandDefault
    /\ sres = None

AggIdle ==
    /\ states = << >>
    /\ snap_regime = None
    /\ ing_regime = None

CallIdle ==
    /\ args = None
    /\ ret = None

UpsertIdle ==
    /\ engine = "postgresql"
    /\ session = None
    /\ written = << >>
    /\ last_commit = "none"

(***************************************************************************)
(* Specification SpecRegime: both regime computations applied to every     *)
(* dict of indicator states the classification step can produce: each      *)
(* quantile-classified indicator is absent or G, Y, R, U; the volatility   *)
(* member is absent, the structure state (G, Y, R) or the level state.     *)
(***************************************************************************)
StatePair(st) == IF st = "U" THEN <<"U", None>> ELSE <<st, Some(Score(st))>>

Absent == "absent"

\* the dict with the keys of `choice` that are not Absent
MakeStates(choice) ==
    [k \in {x \in DOMAIN choice : choice[x] # Absent} |-> StatePair(choice[k])]

VolChoices ==
    {[vix_structure |-> a, vix_level |-> Absent] : a \in {Absent, "G", "Y", "R"}}
        \cup {[vix_structure |-> Absent, vix_level |-> b] : b \in {"G", "Y", "R", "U"}}

InitRegime ==
    /\ \E core \in [FixedCoreKeys -> {Absent, "G", "Y", "R", "U"}], vol \in VolChoices,
          tv \in {Absent, "R", "U"}, usd \in {Absent, "Y"} :
         states = MakeStates([k \in FixedCoreKeys \cup {"vix_structure", "vix_level",
                                                        "treasury_vol", "usd_strength"} |->
                                IF k \in FixedCoreKeys THEN core[k]
                                ELSE IF k = "vix_structure" THEN vol.vix_structure
                                ELSE IF k = "vix_level" THEN vol.vix_level
                                ELSE IF k = "treasury_vol" THEN tv
                                ELSE usd])
    /\ asof_in = 2000
    /\ snap_regime = None
    /\ ing_regime = None
    /\ history = EmptySeries
    /\ history2 = EmptySeries
    /\ value = 0
    /\ high_is_riskoff = TRUE
    /\ qres = None
    /\ qres2 = None
    /\ slope = 0
    /\ flat_band = FlatBandDefault
    /\ sres = None
    /\ StoreIdle
    /\ CallIdle
    /\ UpsertIdle
    /\ pc = "input"

\* the regime step of build_snapshot
SnapshotAggregate ==
    /\ snap_regime = None
    /\ snap_regime' = Some(SnapshotRegime(states, asof_in))
    /\ pc' = "done"
    /\ UNCHANGED <<callVars, upsertVars, states, ing_regime, ruleVars, slopeVars, storeVars>>

\* the regime step of ingest_and_compute
IngestAggregate ==
    /\ ing_regime = None
    /\ ing_regime' = Some(IngestRegime(states, asof_in))
    /\ pc' = "done"
    /\ UNCHANGED <<callVars, upsertVars, states, snap_regime, ruleVars, slopeVars, storeVars>>

NextRegime == SnapshotAggregate \/ IngestAggregate

SpecRegime == InitRegime /\ [][NextRegime]_vars

(***************************************************************************)
(* Specification SpecQuantile: state_from_quantiles applied to bounded     *)
(* inputs.  A history is a run of n consecutive daily observations ending  *)
(* the day before asof, plus any of four isolated observations: on asof,   *)
(* after asof, on the first day of the window and the day before it.       *)
(***************************************************************************)
PatternValue(p, d) == IF p = "const" THEN 5 ELSE d % 20

EdgeDates(asof) == {asof, asof + 1, asof - WindowDays, asof - WindowDays - 1}

\* the isolated observation inside the window carries 1000, those outside it outValue
MakeHistory(asof, n, p, edges, outValue) ==
    [d \in ((asof - n)..(asof - 1)) \cup edges |->
        IF d = asof - WindowDays THEN 1000
        ELSE IF d \in edges THEN outValue
        ELSE PatternValue(p, d)]

QuantileValues == {-1000, 5, 17, 18, 19, 1000}

\* the isolated observations by which the second history differs from the first
EdgeToggles(asof) == {{}, {asof, asof + 1}, {asof - WindowDays - 1}, {asof - WindowDays}}

SymDiff(A, B) == (A \ B) \cup (B \ A)

InitQuantile ==
    /\ asof_in = 2000
    /\ \E n \in (MinObs - 1)..(MinObs + ExtraObs), p \in {"const", "ramp"} :
         \E e1 \in SUBSET EdgeDates(asof_in), t \in EdgeToggles(asof_in) :
            /\ history = MakeHistory(asof_in, n, p, e1, 1000)
            /\ history2 = MakeHistory(asof_in, n, p, SymDiff(e1, t), -1000)
    /\ value \in QuantileValues
    /\ high_is_riskoff \in BOOLEAN
    /\ qres = None
    /\ qres2 = None
    /\ slope = 0
    /\ flat_band = FlatBandDefault
    /\ sres = None
    /\ states = << >>
    /\ snap_regime = None
    /\ ing_regime = None
    /\ StoreIdle
    /\ CallIdle
    /\ UpsertIdle
    /\ pc = "input"

\* callers pass window_days = 365 * 3 (the default) and qs = (0.90, 0.95)
ClassifyQuantiles ==
    /\ pc = "input"
    /\ qres = None
    /\ qres' = Some(state_from_quantiles(history, asof_in, value, WindowDays, <<Q90, Q95>>, high_is_riskoff))
    /\ qres2' = Some(state_from_quantiles(history2, asof_in, value, WindowDays, <<Q90, Q95>>, high_is_riskoff))
    /\ pc' = "done"
    /\ UNCHANGED <<callVars, upsertVars, history, history2, asof_in, value, high_is_riskoff, slopeVars, aggVars, storeVars>>

NextQuantile == ClassifyQuantiles

SpecQuantile == InitQuantile /\ [][NextQuantile]_vars

(***************************************************************************)
(* Specification SpecStructure: structure_state_from_slope applied to      *)
(* every slope of -MaxSlope..MaxSlope hundredths.                          *)
(***************************************************************************)
InitStructure ==
    /\ slope \in (-MaxSlope)..MaxSlope
    /\ flat_band \in {0, FlatBandDefault, 2 * FlatBandDefault}
    /\ sres = None
    /\ history = EmptySeries
    /\ history2 = EmptySeries
    /\ asof_in = 0
    /\ value = 0
    /\ high_is_riskoff = TRUE
    /\ qres = None
    /\ qres2 = None
    /\ states = << >>
    /\ snap_regime = None
    /\ ing_regime = None
    /\ StoreIdle
    /\ CallIdle
    /\ UpsertIdle
    /\ pc = "input"

ClassifyStructure ==
    /\ pc = "input"
    /\ sres = None
    /\ sres' = Some(structure_state_from_slope(slope, flat_band))
    /\ pc' = "done"
    /\ UNCHANGED <<callVars, upsertVars, slope, flat_band, ruleVars, aggVars, storeVars>>

NextStructure == ClassifyStructure

SpecStructure == InitStructure /\ [][NextStructure]_vars

(***************************************************************************)
(* Specification SpecAlign: _align_asof applied to every pair of series    *)
(* over the dates 0..MaxDate (base starts on day 1, so that `other` may    *)
(* have an observation before every date of base).  The values of `other`  *)
(* are all 0 or differ from date to date.                                  *)
(***************************************************************************)
MaxDate == 5

OtherValue(p, e) == IF p = "zero" THEN 0 ELSE 10 + e

InitAlign ==
    /\ \E B \in SUBSET (1..MaxDate), O \in SUBSET (0..MaxDate), p \in {"zero", "dated"} :
         args = Some([base |-> [d \in B |-> 100 + d],
                      other |-> [e \in O |-> OtherValue(p, e)]])
    /\ ret = None
    /\ RulesIdle
    /\ AggIdle
    /\ StoreIdle
    /\ UpsertIdle
    /\ pc = "input"

AlignAsof ==
    /\ pc = "input"
    /\ ret' = Some(align_asof(args[1].base, args[1].other))
    /\ pc' = "done"
    /\ UNCHANGED <<args, upsertVars, ruleVars, slopeVars, aggVars, storeVars>>

NextAlign == AlignAsof

SpecAlign == InitAlign /\ [][NextAlign]_vars

(***************************************************************************)
(* Specification Spec: the store, ingestion runs and snapshot requests.    *)
(*                                                                         *)
(* A fetch of a base series answers with an error or with the series as    *)
(* FRED publishes it on that day: WALCL and TGA weekly (TGA the day before *)
(* and starting later than WALCL), RRP sparse, the others daily; a series  *)
(* may lag by one period.  In one run every key is fetched, one key of     *)
(* FailingKeys fails, one key of LaggingKeys lags, or every fetch fails.   *)
(* The clock may jump past the window of _load_history between two runs.   *)
(***************************************************************************)
MaxRuns == 2
MaxAdvances == 1

FredDates(key, end) ==
    CASE key = "walcl" -> {d \in (end - 7 * 64)..end : d % 7 = 0}
      [] key = "tga" -> {d \in (end - 7 * 63)..end : d % 7 = 6}
      [] key = "rrp" -> {d \in (end - 70)..end : d % 7 = 0}
      [] key = "dgs10" -> (end - 90)..end
      [] key = "usd_twi_broad" -> (end - 75)..end
      [] OTHER -> (end - 70)..end

FredValue(key, d) ==
    CASE key = "walcl" -> 1000 + ((d \div 7) % 5) * 10
      [] key = "tga" -> 100 + ((d \div 7) % 3) * 5
      [] key = "rrp" -> 50
      [] key = "hy_oas" -> 300 + (d % 5) * 10
      [] key = "sofr" -> 500 + (d % 3)
      [] key = "iorb" -> 490
      [] key = "effr" -> 495 + (d % 2)
      [] key = "vix" -> 2000 + (d % 4) * 100
      [] key = "vxv" -> 2050
      [] key = "dgs10" -> 400 + (d % 2)
      [] key = "usd_twi_broad" -> 100 + (d % 3)

Period(key) == IF key \in {"walcl", "tga", "rrp"} THEN 7 ELSE 1

\* fetch_fred_series_csv: the series published up to `end`
FredSeries(key, end) == Eager([d \in FredDates(key, end) |-> FredValue(key, d)])

AllOk == [k \in BaseKeys |-> "ok"]

\* the keys whose fetch fails alone, and those that lag alone
FailingKeys == {"hy_oas", "vxv", "sofr", "tga", "dgs10"}

LaggingKeys == {"vxv", "walcl", "hy_oas"}

Feeds ==
    {AllOk, [k \in BaseKeys |-> "err"]}
        \cup {[AllOk EXCEPT ![k] = "err"] : k \in FailingKeys}
        \cup {[AllOk EXCEPT ![k] = "lag"] : k \in LaggingKeys}

\* ingest_and_compute, lines 119-126
Fetched(feed, now) ==
    Eager([k \in {x \in BaseKeys : feed[x] # "err"} |->
             FredSeries(k, IF feed[k] = "lag" THEN now - Period(k) ELSE now)])

FetchErrors(feed) == [k \in {x \in BaseKeys : feed[x] = "err"} |-> "error"]

Init ==
    /\ today = 7 * 1000
    /\ observation = EmptyStore
    /\ indicator_state = {}
    /\ regime_state = {}
    /\ ingest_out = None
    /\ snapshot = None
    /\ runs = 0
    /\ advances = 0
    /\ RulesIdle
    /\ AggIdle
    /\ CallIdle
    /\ UpsertIdle
    /\ pc = "serving"

\* one run of ingest_and_compute (POST /api/ingest/run or the scheduled job)
IngestAndCompute ==
    /\ runs < MaxRuns
    /\ \E feed \in Feeds :
         \E r \in {ingest_and_compute(observation, indicator_state, regime_state,
                                      Fetched(feed, today), FetchErrors(feed), today)} :
             /\ observation' = r.observation
             /\ indicator_state' = r.indicator_state
             /\ regime_state' = r.regime_state
             /\ ingest_out' = Some([now |-> today, states |-> r.states,
                                    regime_row |-> r.regime_row, out |-> r.out])
    /\ runs' = runs + 1
    /\ snapshot' = None
    /\ UNCHANGED <<callVars, upsertVars, today, advances, ruleVars, slopeVars, aggVars, pc>>

\* the as-of dates a client asks for: none (today) or a past day
Requests(now) == {None, Some(now - 1)}

\* GET /api/snapshot: build_snapshot(db, requested_asof)
BuildSnapshot ==
    /\ \E req \in Requests(today) :
         /\ IF snapshot = None THEN TRUE ELSE snapshot[1].requested_asof # req
         /\ snapshot' = Some([requested_asof |-> req, now |-> today,
                              result |-> build_snapshot(observation, req, today)])
    /\ UNCHANGED <<callVars, upsertVars, today, observation, indicator_state, regime_state, ingest_out, runs,
                   advances, ruleVars, slopeVars, aggVars, pc>>

\* time passes: more days than _load_history looks back
AdvanceClock ==
    /\ advances < MaxAdvances
    /\ today' = today + LoadDays + 1
    /\ advances' = advances + 1
    /\ snapshot' = None
    /\ UNCHANGED <<callVars, upsertVars, observation, indicator_state, regime_state, ingest_out, runs,
                   ruleVars, slopeVars, aggVars, pc>>

Next == IngestAndCompute \/ BuildSnapshot \/ AdvanceClock

Spec == Init /\ [][Next]_vars

(***************************************************************************)
(* Claims about the classifiers                                            *)
(***************************************************************************)
\* the observations of h dated in [asof - 3 years, asof), stated without the code
InWindow(h, asof) == {d \in DOMAIN h : asof - WindowDays <= d /\ d <= asof - 1}

AgreeOnWindow(h1, h2, asof) ==
    /\ InWindow(h1, asof) = InWindow(h2, asof)
    /\ \A d \in InWindow(h1, asof) : h1[d] = h2[d]

RealStates == {"G", "Y", "R"}

\* C5: two histories that agree on every date of [asof - window_days, asof) get the
\* identical (state, severity, details) from state_from_quantiles for the same asof
\* and value, whatever they hold on asof, after asof or before the window.
C5_NoLookahead ==
    (pc = "done" /\ qres # None /\ AgreeOnWindow(history, history2, asof_in)) => qres = qres2

C5_Witness ==
    /\ pc = "done" /\ qres # None
    /\ AgreeOnWindow(history, history2, asof_in)
    /\ asof_in \in DOMAIN history /\ asof_in \notin DOMAIN history2
    /\ asof_in + 1 \in DOMAIN history2
    /\ asof_in - WindowDays - 1 \in DOMAIN history
    /\ qres[1].state \in RealStates

IsInsufficient(r) ==
    r = [state |-> "U", score |-> None, details |-> [reason |-> "insufficient_history"]]

\* C6: the quantile classifier returns (U, null, insufficient_history) exactly when
\* the window [asof - window_days, asof) holds fewer than 60 observations; otherwise
\* it returns G, Y or R with a non-null severity.
C6_SufficiencyBoundary ==
    (pc = "done" /\ qres # None) =>
        /\ IsInsufficient(qres[1]) <=> (Cardinality(InWindow(history, asof_in)) < 60)
        /\ IsInsufficient(qres2[1]) <=> (Cardinality(InWindow(history2, asof_in)) < 60)
        /\ (~IsInsufficient(qres[1])) => (qres[1].state \in RealStates /\ qres[1].score # None)

C6_Witness ==
    /\ pc = "done" /\ qres # None
    /\ Cardinality(InWindow(history, asof_in)) = 59
    /\ Cardinality(InWindow(history2, asof_in)) = 60
    /\ qres[1].state = "U"
    /\ qres2[1].state \in RealStates

\* C7: with sufficient history and high_is_riskoff, t1 <= t2 and value >= t2 gives
\* R/2, t1 <= value < t2 gives Y/1, value < t1 gives G/0; a value above (below) every
\* observation of the window falls into the Red (Green) bucket.
C7_HighIsAdverse ==
    (pc = "done" /\ qres # None /\ high_is_riskoff
        /\ Cardinality(InWindow(history, asof_in)) >= 60) =>
        LET W == InWindow(history, asof_in)
            t1 == Quantile100(history, W, 90)
            t2 == Quantile100(history, W, 95)
            r == qres[1]
        IN  /\ t1 <= t2
            /\ (100 * value >= t2) => (r.state = "R" /\ r.score = Some(2))
            /\ (t1 <= 100 * value /\ 100 * value < t2) => (r.state = "Y" /\ r.score = Some(1))
            /\ (100 * value < t1) => (r.state = "G" /\ r.score = Some(0))
            /\ (\A d \in W : value >= history[d]) => r.state = "R"
            /\ (\A d \in W : value < history[d]) => r.state = "G"

C7_Witness ==
    /\ pc = "done" /\ qres # None /\ high_is_riskoff
    /\ Cardinality(InWindow(history, asof_in)) >= 60
    /\ qres[1].state = "Y"
    /\ qres[1].details.q1 < qres[1].details.q2

\* values tried for the low-is-risk-off branch: every integer around the thresholds
MirrorValues == QuantileValues \cup (-1..21)

\* C8: with sufficient history and high_is_riskoff false, severity is non-increasing
\* in the value, and when t1 < t2 each of R/2, Y/1 and G/0 is returned for some value.
C8_LowIsAdverseMirror ==
    (pc = "done" /\ qres # None /\ ~high_is_riskoff /\ qres[1].state \in RealStates) =>
        LET q1 == qres[1].details.q1
            q2 == qres[1].details.q2
        IN  /\ \A v \in MirrorValues :
                  v <= value => LowBranch(v, q1, q2).score[1] >= qres[1].score[1]
            /\ (q1 < q2) =>
                  \A st \in RealStates : \E v \in MirrorValues : LowBranch(v, q1, q2).state = st

\* the part of C8 the code satisfies: severity is non-increasing in the value
C8_LowIsAdverseMonotone ==
    (pc = "done" /\ qres # None /\ ~high_is_riskoff /\ qres[1].state \in RealStates) =>
        LET q1 == qres[1].details.q1
            q2 == qres[1].details.q2
        IN  \A v \in MirrorValues : v <= value => LowBranch(v, q1, q2).score[1] >= qres[1].score[1]

\* C9: structure_state_from_slope partitions the slope by the band: slope > band is
\* R/2 backwardation, -band <= slope <= band is Y/1 flat (both bounds inclusive),
\* slope < -band is G/0 contango; it never returns U.
C9_StructurePartition ==
    (pc = "done" /\ sres # None) =>
        LET r == sres[1] IN
        /\ (slope > flat_band) =>
              (r.state = "R" /\ r.score = Some(2) /\ r.details.structure = "backwardation")
        /\ (-flat_band <= slope /\ slope <= flat_band) =>
              (r.state = "Y" /\ r.score = Some(1) /\ r.details.structure = "flat")
        /\ (slope < -flat_band) =>
              (r.state = "G" /\ r.score = Some(0) /\ r.details.structure = "contango")
        /\ r.state \in RealStates
        /\ r.details.slope = slope

C9_Witness ==
    /\ pc = "done" /\ sres # None
    /\ flat_band = 25 /\ slope = -25
    /\ sres[1].state = "Y"

(***************************************************************************)
(* Claims about the regime aggregation                                     *)
(***************************************************************************)
VolKeys == {"vix_structure", "vix_level"}

\* the core members that have a classification
PresentCore(sts) == (FixedCoreKeys \cup VolKeys) \cap DOMAIN sts

RedsOf(sts) == Cardinality({k \in PresentCore(sts) : sts[k][1] = "R"})

VolIsRed(sts) == \E k \in VolKeys \cap DOMAIN sts : sts[k][1] = "R"

\* the regime of the decision rule, in its priority order
RuleRegime(sts) ==
    IF \A k \in PresentCore(sts) : sts[k][1] = "G" THEN "A"
    ELSE IF RedsOf(sts) >= 3 \/ (RedsOf(sts) >= 2 /\ VolIsRed(sts)) THEN "C"
    ELSE "B"

\* C1: with 3 or 4 core members present, the declared regime is A when every present
\* core member is Green, otherwise C when reds >= 3 or (reds >= 2 and the volatility
\* member is Red), otherwise B; in build_snapshot and in ingest_and_compute.
C1_RegimePriority ==
    (Cardinality(PresentCore(states)) >= 3) =>
        /\ (snap_regime # None) =>
              (snap_regime[1].regime # None
                 /\ snap_regime[1].regime[1].regime = RuleRegime(states))
        /\ (ing_regime # None) => ing_regime[1].regime = RuleRegime(states)

\* the part of C1 that is about build_snapshot alone
C1_SnapshotPriority ==
    (Cardinality(PresentCore(states)) >= 3 /\ snap_regime # None) =>
        (snap_regime[1].regime # None /\ snap_regime[1].regime[1].regime = RuleRegime(states))

\* C2: with fewer than 3 core members classified no regime is declared: build_snapshot
\* returns no regime and no allocation, ingest_and_compute writes no RegimeState row.
C2_NoRegimeBelowThree ==
    (Cardinality(PresentCore(states)) < 3) =>
        /\ (snap_regime # None) =>
              (snap_regime[1].regime = None /\ snap_regime[1].allocation = None)
        /\ (ing_regime # None) => ing_regime[1].row = None

\* the part of C2 that is about build_snapshot alone
C2_SnapshotNoRegimeBelowThree ==
    (Cardinality(PresentCore(states)) < 3 /\ snap_regime # None) =>
        (snap_regime[1].regime = None /\ snap_regime[1].allocation = None)

Severity(st) == CASE st = "G" -> 0 [] st = "Y" -> 1 [] st = "R" -> 2 [] st = "U" -> 0

SeverityAt(sts, k) == IF k \in DOMAIN sts THEN Severity(sts[k][1]) ELSE 0

\* the sum of the severities of the core members (at most one volatility key is present)
CoreSeverity(sts) ==
    SeverityAt(sts, "synthetic_liquidity") + SeverityAt(sts, "credit_spread")
        + SeverityAt(sts, "funding_stress") + SeverityAt(sts, "vix_structure")
        + SeverityAt(sts, "vix_level")

ScoreAsClaimed(sts, score) ==
    /\ score = CoreSeverity(sts)
    /\ 0 <= score /\ score <= 8
    /\ (Cardinality(PresentCore(sts)) = 4 /\ \A k \in PresentCore(sts) : sts[k][1] = "G") => score = 0
    /\ (Cardinality(PresentCore(sts)) = 4 /\ \A k \in PresentCore(sts) : sts[k][1] = "Y") => score = 4

\* C4: a declared regime's risk score is the sum over the core members only of
\* G=0, Y=1, R=2, U=0: an Unknown core member adds 0, treasury_vol and usd_strength
\* add nothing; it lies in 0..8, is 0 for G,G,G,G and 4 for Y,Y,Y,Y.
C4_RiskScore ==
    /\ (snap_regime # None /\ snap_regime[1].regime # None) =>
          ScoreAsClaimed(states, snap_regime[1].regime[1].risk_score)
    /\ (ing_regime # None /\ ing_regime[1].row # None) =>
          /\ ScoreAsClaimed(states, ing_regime[1].row[1].risk_score)
          /\ ing_regime[1].risk_score = ing_regime[1].row[1].risk_score

C4_Witness ==
    /\ snap_regime # None /\ snap_regime[1].regime # None
    /\ ing_regime # None /\ ing_regime[1].row # None
    /\ Cardinality(PresentCore(states)) = 4
    /\ states["credit_spread"][1] = "U"
    /\ "treasury_vol" \in DOMAIN states /\ states["treasury_vol"][1] = "R"
    /\ "usd_strength" \in DOMAIN states
    /\ snap_regime[1].regime[1].risk_score = 5

(***************************************************************************)
(* Claims about the store: the batch and the interactive computation.      *)
(***************************************************************************)
\* the last ingestion run and a snapshot request without as-of date were evaluated on
\* the same day over the same Observation table (a run discards the snapshot held)
SameEvaluation ==
    /\ ingest_out # None
    /\ snapshot # None
    /\ snapshot[1].requested_asof = None
    /\ snapshot[1].now = ingest_out[1].now

IngestAsofOut == ingest_out[1].out.asof

SnapshotComputed == snapshot # None /\ "asof" \in DOMAIN snapshot[1].result

\* both computations chose the same effective as-of date (or neither found one)
SameAsOf ==
    IF IngestAsofOut = None THEN ~SnapshotComputed
    ELSE SnapshotComputed /\ snapshot[1].result.asof = IngestAsofOut[1]

\* the same indicators are classified, with the same (state, score)
SameIndicatorStates ==
    StatesOf(snapshot[1].result.indicators) = StatesOf(ingest_out[1].states)

\* the same regime, risk score and drivers, or no regime on either side
SameRegime ==
    IF ingest_out[1].regime_row = None THEN snapshot[1].result.regime = None
    ELSE /\ snapshot[1].result.regime # None
         /\ snapshot[1].result.regime[1].regime = ingest_out[1].regime_row[1].regime
         /\ snapshot[1].result.regime[1].risk_score = ingest_out[1].regime_row[1].risk_score
         /\ snapshot[1].result.regime[1].drivers = ingest_out[1].regime_row[1].drivers

\* C3: for the same stored Observations and the same evaluation date,
\* ingest_and_compute and build_snapshot produce the same effective as-of date, the
\* same per-indicator (state, score) values and the same regime, risk score and
\* drivers (or both produce no regime)
C3_BatchEqualsInteractive ==
    SameEvaluation =>
        /\ SameAsOf
        /\ IngestAsofOut # None => (SameIndicatorStates /\ SameRegime)

\* the parts of C3 taken alone
C3_SameAsOf == SameEvaluation => SameAsOf

C3_SameIndicatorStates ==
    (SameEvaluation /\ SameAsOf /\ IngestAsofOut # None) => SameIndicatorStates

C3_SameRegime ==
    (SameEvaluation /\ SameAsOf /\ IngestAsofOut # None /\ SameIndicatorStates) => SameRegime

\* a slope observation is stored on the date
SlopeObservedOn(d) == d \in DOMAIN observation["vix_slope"]

\* the volatility member of a dict of indicator states is chosen as claimed for `asof`
VolatilityChosen(keys, asof) ==
    /\ SlopeObservedOn(asof) => "vix_structure" \in keys
    /\ "vix_level" \in keys => ~SlopeObservedOn(asof)
    /\ ~({"vix_structure", "vix_level"} \subseteq keys)

VolatilityOnce(keys) == ~({"vix_structure", "vix_level"} \subseteq keys)

\* the snapshot part of C10
C10_SnapshotVolatility ==
    SnapshotComputed =>
        /\ VolatilityChosen(DOMAIN snapshot[1].result.indicators, snapshot[1].result.asof)
        /\ snapshot[1].result.regime # None =>
              VolatilityOnce(DOMAIN snapshot[1].result.regime[1].drivers.core)

\* the ingestion part of C10
C10_IngestVolatility ==
    (ingest_out # None /\ IngestAsofOut # None) =>
        /\ VolatilityChosen(DOMAIN ingest_out[1].states, IngestAsofOut[1])
        /\ VolatilityOnce(DOMAIN ingest_out[1].out.core_states)

\* C10: in every computed snapshot the structure classification is used whenever a
\* slope observation exists on the as-of date, the level classification only when
\* none does, and the indicator states and the core set never contain both
C10_VolatilityExclusive == C10_SnapshotVolatility /\ C10_IngestVolatility

\* neither computation ever holds both volatility members
C10_NeverBoth ==
    /\ SnapshotComputed => VolatilityOnce(DOMAIN snapshot[1].result.indicators)
    /\ (ingest_out # None) => /\ VolatilityOnce(DOMAIN ingest_out[1].states)
                              /\ VolatilityOnce(DOMAIN ingest_out[1].out.core_states)

\* a run whose as-of date is older than the window of _load_history
StaleRun ==
    /\ ingest_out # None
    /\ IngestAsofOut # None
    /\ IngestAsofOut[1] < ingest_out[1].now - LoadDays

\* outside a stale run the ingestion part of C10 holds
C10_IngestVolatilityFresh == ~StaleRun => C10_IngestVolatility

(***************************************************************************)
(* Claims about the effective as-of date.                                  *)
(***************************************************************************)
\* the date up to which a snapshot request looks: the requested date, else today
RequestEnd == IF snapshot[1].requested_asof # None THEN snapshot[1].requested_asof[1]
              ELSE snapshot[1].now

\* every required core source series has an observation on d: the liquidity clock,
\* the credit spread, the funding spread, and the volatility slope or level
CommonDate(clock, d) ==
    /\ d \in DOMAIN observation[clock]
    /\ d \in DOMAIN observation["hy_oas"]
    /\ d \in DOMAIN observation["funding_spread"]
    /\ (d \in DOMAIN observation["vix_slope"] \/ d \in DOMAIN observation["vix"])

\* the dates stored for the core source series
CoreDates(clock) ==
    DOMAIN observation[clock] \cup DOMAIN observation["hy_oas"]
        \cup DOMAIN observation["funding_spread"] \cup DOMAIN observation["vix_slope"]
        \cup DOMAIN observation["vix"]

\* asof is the most recent common date not after end
MostRecentCommonDate(clock, asof, end) ==
    /\ asof <= end
    /\ CommonDate(clock, asof)
    /\ \A d \in CoreDates(clock) : (d > asof /\ d <= end) => ~CommonDate(clock, d)

\* C11: the effective as-of date chosen for a requested date is the most recent date,
\* not after the requested date, on which every required core source series has an
\* observation
C11_AsOfIsCommonDate ==
    SnapshotComputed => MostRecentCommonDate("walcl", snapshot[1].result.asof, RequestEnd)

\* the same for the as-of date of an ingestion run (no requested date)
C11_IngestAsOfIsCommonDate ==
    (ingest_out # None /\ IngestAsofOut # None) =>
        /\ CommonDate("synthetic_liquidity_delta_w", IngestAsofOut[1])
        /\ \A d \in CoreDates("synthetic_liquidity_delta_w") :
              d > IngestAsofOut[1] => ~CommonDate("synthetic_liquidity_delta_w", d)

\* the as-of date of a snapshot is never after the requested date
C11_NotAfterRequested == SnapshotComputed => snapshot[1].result.asof <= RequestEnd

\* no common date not after the requested date is more recent than the as-of date
C11_NoLaterCommonDate ==
    SnapshotComputed =>
        \A d \in CoreDates("walcl") :
            (d > snapshot[1].result.asof /\ d <= RequestEnd) => ~CommonDate("walcl", d)

(***************************************************************************)
(* Claims about _align_asof.                                               *)
(***************************************************************************)
\* the observations of other dated at or before d
AtOrBefore(other, d) == {e \in DOMAIN other : e <= d}

\* v is the value of other's latest observation at or before d; missing when none
IsLatestAtOrBefore(other, d, v) ==
    IF AtOrBefore(other, d) = {} THEN v = None
    ELSE \E e \in AtOrBefore(other, d) :
            /\ \A e2 \in AtOrBefore(other, d) : e2 <= e
            /\ v = Some(other[e])

\* C12: _align_asof returns a series over exactly base's dates in which each date
\* carries the value of the latest observation of other dated at or before it, and is
\* missing (not zero) when there is none; base dates [1, 3, 5] and other at [0, 4] give
\* [other(0), other(0), other(4)]; an empty other gives all-missing, an empty base an
\* empty result
C12_BackwardAlignment ==
    ret # None =>
        /\ DOMAIN ret[1] = DOMAIN args[1].base
        /\ \A d \in DOMAIN args[1].base : IsLatestAtOrBefore(args[1].other, d, ret[1][d])
        /\ (DOMAIN args[1].base = {1, 3, 5} /\ DOMAIN args[1].other = {0, 4}) =>
              /\ ret[1][1] = Some(args[1].other[0])
              /\ ret[1][3] = Some(args[1].other[0])
              /\ ret[1][5] = Some(args[1].other[4])
        /\ DOMAIN args[1].other = {} => \A d \in DOMAIN args[1].base : ret[1][d] = None
        /\ DOMAIN args[1].base = {} => ret[1] = EmptySeries

\* a base date without an earlier observation of other is missing, and a base date
\* on which other has an observation of value 0 carries that 0
C12_Witness ==
    /\ ret # None
    /\ DOMAIN args[1].base = {1, 4}
    /\ DOMAIN args[1].other = {4}
    /\ ret[1][1] = None
    /\ ret[1][4] = Some(0)

(***************************************************************************)
(* ingest.py, _upsert_observations row by row, in a SQLAlchemy session     *)
(* (db.py: autocommit=False, autoflush=False)                              *)
(***************************************************************************)
MaxCalls == 3
MaxDay == 2

UpsertKeys == {"vix", "hy_oas"}
\* float values of a fetched Series; None is NaN
UpsertValues == {None, Some(10), Some(20)}
UpsertSeries == UNION {[D -> UpsertValues] : D \in (SUBSET (1..MaxDay)) \ {{}}}

\* SessionLocal(): a transaction that sees the committed rows; nothing is pending
SessionLocal(obs) == [tx |-> obs, added |-> << >>]

SetRow(store, k, d, v) == [store EXCEPT ![k] = Eager((d :> v) @@ @)]

\* lines 46-51: INSERT ... ON CONFLICT (indicator_key, date) DO UPDATE, executed at
\* once inside the transaction
PgUpsertRow(s, k, d, v) == [s EXCEPT !.tx = SetRow(s.tx, k, d, v)]

\* lines 63-72: the SELECT reads the database (autoflush is off, so a row that was
\* only db.add()-ed is not found); a missing row is added to the session, a found
\* row is changed in place when the value differs
FallbackUpsertRow(s, k, d, v) ==
    IF d \in DOMAIN s.tx[k]
    THEN IF s.tx[k][d] # v THEN [s EXCEPT !.tx = SetRow(s.tx, k, d, v)] ELSE s
    ELSE [s EXCEPT !.added = Append(@, <<k, d, v>>)]

UpsertRow(eng, s, k, d, v) ==
    IF eng = "postgresql" THEN PgUpsertRow(s, k, d, v) ELSE FallbackUpsertRow(s, k, d, v)

RECURSIVE UpsertRows(_, _, _, _, _)
UpsertRows(eng, s, k, series, dates) ==
    IF dates = << >> THEN s
    ELSE LET d == Head(dates)
             s1 == IF series[d] = None THEN s  \* pd.isna(v): continue
                   ELSE UpsertRow(eng, s, k, d, series[d][1])
         IN  UpsertRows(eng, s1, k, series, Tail(dates))

\* _upsert_observations(db, indicator_key, series): the session afterwards
upsert_session(eng, s, k, series) == UpsertRows(eng, s, k, series, SortedDates(DOMAIN series))

\* the values handed over so far, the last non-missing one per (key, date)
RECURSIVE Record(_, _, _, _)
Record(w, k, series, dates) ==
    IF dates = << >> THEN w
    ELSE LET d == Head(dates)
             w1 == IF series[d] = None THEN w ELSE (<<k, d>> :> series[d][1]) @@ w
         IN  Record(w1, k, series, Tail(dates))

\* models.py uq_observation_indicator_date: the flush of the pending rows fails when
\* two of them, or one of them and a stored row, share (indicator_key, date)
ViolatesUnique(s) ==
    \/ \E i, j \in DOMAIN s.added :
         i < j /\ s.added[i][1] = s.added[j][1] /\ s.added[i][2] = s.added[j][2]
    \/ \E i \in DOMAIN s.added : s.added[i][2] \in DOMAIN s.tx[s.added[i][1]]

RECURSIVE Flush(_, _)
Flush(store, added) ==
    IF added = << >> THEN store
    ELSE Flush(SetRow(store, Head(added)[1], Head(added)[2], Head(added)[3]), Tail(added))

InitUpsert ==
    /\ engine \in {"postgresql", "sqlite"}
    /\ session = None
    /\ written = << >>
    /\ last_commit = "none"
    /\ today = 0
    /\ observation = EmptyStore
    /\ indicator_state = {}
    /\ regime_state = {}
    /\ ingest_out = None
    /\ snapshot = None
    /\ runs = 0
    /\ advances = 0
    /\ RulesIdle
    /\ AggIdle
    /\ CallIdle
    /\ pc = "upsert"

\* one call of _upsert_observations, in the open session or in a new one
UpsertObservations ==
    /\ runs < MaxCalls
    /\ \E k \in UpsertKeys, series \in UpsertSeries :
         /\ session' = Some(upsert_session(engine,
                              IF session = None THEN SessionLocal(observation) ELSE session[1],
                              k, series))
         /\ written' = Record(written, k, series, SortedDates(DOMAIN series))
    /\ runs' = runs + 1
    /\ UNCHANGED <<callVars, ruleVars, slopeVars, aggVars, pc, engine, last_commit, today,
                   observation, indicator_state, regime_state, ingest_out, snapshot, advances>>

\* db.commit() and the end of the with-block: the pending rows are flushed and the
\* transaction committed, or the IntegrityError rolls everything back
Commit ==
    /\ session # None
    /\ IF ViolatesUnique(session[1])
       THEN /\ last_commit' = "IntegrityError"
            /\ UNCHANGED observation
       ELSE /\ last_commit' = "ok"
            /\ observation' = Flush(session[1].tx, session[1].added)
    /\ session' = None
    /\ UNCHANGED <<callVars, ruleVars, slopeVars, aggVars, pc, engine, written, today,
                   indicator_state, regime_state, ingest_out, snapshot, runs, advances>>

NextUpsert == UpsertObservations \/ Commit

SpecUpsert == InitUpsert /\ [][NextUpsert]_vars

(***************************************************************************)
(* Claims about the stored observations                                    *)
(***************************************************************************)
Stored(k, d) == d \in DOMAIN observation[k]

AllCommitted == session = None /\ last_commit # "none"

\* C13: once the calls of _upsert_observations are committed, every (key, date) that
\* was written holds the last non-missing value written for it
C13_LastWriteWins ==
    AllCommitted =>
        \A p \in DOMAIN written : Stored(p[1], p[2]) /\ observation[p[1]][p[2]] = written[p]

\* C13, on PostgreSQL: the ON CONFLICT upsert keeps the last value
C13_PostgresLastWriteWins == engine = "postgresql" => C13_LastWriteWins

\* C13: a commit of upserts fails only on the row-by-row path
C13_OnlyFallbackFails == last_commit = "IntegrityError" => engine = "sqlite"

\* a session of the row-by-row path wrote one (key, date) twice and its commit failed
C13_DuplicateAdd ==
    /\ engine = "sqlite"
    /\ last_commit = "IntegrityError"
    /\ \E p \in DOMAIN written : ~Stored(p[1], p[2])

C13_PostgresWitness ==
    /\ engine = "postgresql"
    /\ AllCommitted
    /\ runs = MaxCalls
    /\ \E p \in DOMAIN written : observation[p[1]][p[2]] = 20

(***************************************************************************)
(* Claims about the stored states                                          *)
(***************************************************************************)
IndicatorRows(k, d) == {r \in indicator_state : r.indicator_key = k /\ r.date = d}

RegimeRows(d) == {r \in regime_state : r.date = d}

IndicatorRowOf(k, d, st) ==
    [indicator_key |-> k, date |-> d, state |-> st.state, score |-> st.score,
     details |-> st.details]

\* the last run of ingest_and_compute classified on the date d
IngestComputedOn(d) ==
    /\ ingest_out # None
    /\ ingest_out[1].out.asof = Some(d)

\* C14: the IndicatorState table holds at most one row per (key, date) and the
\* RegimeState table at most one row per date; after a run of ingest_and_compute the
\* rows of its as-of date are exactly the states and the regime it computed, whatever
\* was stored for that date before
C14_OneRowPerKeyAndDate ==
    /\ \A r1, r2 \in indicator_state :
         (r1.indicator_key = r2.indicator_key /\ r1.date = r2.date) => r1 = r2
    /\ \A r1, r2 \in regime_state : r1.date = r2.date => r1 = r2
    /\ \A d \in {r.date : r \in indicator_state \cup regime_state} \cup {today, today - 1} :
         IngestComputedOn(d) =>
            /\ \A k \in DOMAIN ingest_out[1].states :
                 IndicatorRows(k, d) = {IndicatorRowOf(k, d, ingest_out[1].states[k])}
            /\ ingest_out[1].regime_row # None
            /\ RegimeRows(d) = {ingest_out[1].regime_row[1]}

\* C14: a stored row is never deleted, so every date for which a regime was computed
\* keeps exactly one RegimeState row
C14_RowsPersist ==
    [][/\ \A r \in regime_state : RegimeRows(r.date)' # {}
       /\ \A r \in indicator_state : IndicatorRows(r.indicator_key, r.date)' # {}]_vars

\* a second run on the same as-of date replaced a RegimeState row computed from other
\* core states, and IndicatorState rows of that date are stored
C14_Witness ==
    /\ runs = MaxRuns
    /\ advances = MaxAdvances
    /\ \E d \in {r.date : r \in regime_state} :
         /\ IngestComputedOn(d)
         /\ d < today - LoadDays
         /\ RegimeRows(d) = {ingest_out[1].regime_row[1]}
         /\ \E r \in indicator_state : r.date = d

(***************************************************************************)
(* Claims about repeated snapshots                                         *)
(***************************************************************************)
\* the clocks of a later call: the same day, the next day, after the load window
LaterClocks == {today, today + 1, today + LoadDays + 1}

\* C15: with the stored observations unchanged, a call of build_snapshot for the same
\* requested date, now or on a later day, returns the result of the earlier call
C15_SameResultLater ==
    snapshot # None =>
        \A now2 \in LaterClocks :
            build_snapshot(observation, snapshot[1].requested_asof, now2) = snapshot[1].result

\* C15: build_snapshot does not modify the store
C15_StoreUnchanged ==
    [][(snapshot' # snapshot /\ snapshot' # None) =>
          UNCHANGED <<observation, indicator_state, regime_state>>]_vars

\* a snapshot without a requested date that carries indicator states, a regime and an
\* allocation
C15_Witness ==
    /\ snapshot # None
    /\ snapshot[1].requested_asof = None
    /\ "regime" \in DOMAIN snapshot[1].result
    /\ snapshot[1].result.regime # None
    /\ snapshot[1].result.allocation # None
    /\ DOMAIN snapshot[1].result.indicators # {}

(***************************************************************************)
(* Claims about the state and severity of an indicator                     *)
(***************************************************************************)
Paired(r) ==
    \/ r.state = "G" /\ r.score = Some(0)
    \/ r.state = "Y" /\ r.score = Some(1)
    \/ r.state = "R" /\ r.score = Some(2)
    \/ r.state = "U" /\ r.score = None

\* the indicators of a snapshot whose history is a stored or derived series that the
\* claim can count without the classifier
CountedIndicators ==
    {"synthetic_liquidity", "credit_spread", "funding_stress", "vix_level", "usd_strength"}

SourceHistory(k, asof) ==
    CASE k = "credit_spread" -> observation["hy_oas"]
      [] k = "funding_stress" -> observation["funding_spread"]
      [] k = "vix_level" -> observation["vix"]
      [] k = "synthetic_liquidity" -> synthetic_liquidity_delta_w(observation, asof)
      [] k = "usd_strength" ->
            PctChange60(load_history_asof(observation, "usd_twi_broad", asof, LongLoadDays))

InsufficientHistory(k, asof) == Cardinality(InWindow(SourceHistory(k, asof), asof)) < MinObs

SnapshotPaired(res) ==
    \A k \in DOMAIN res.indicators :
        /\ Paired(res.indicators[k])
        /\ k = "vix_structure" => res.indicators[k].state # "U"
        /\ k \in CountedIndicators =>
              (res.indicators[k].state = "U" <=> InsufficientHistory(k, res.asof))

\* C16: every indicator state of a snapshot and of an ingestion run pairs G with 0,
\* Y with 1, R with 2 and U with no severity; the structure classifier never answers
\* U, and a quantile or tertile classifier answers U exactly when fewer than 60
\* observations lie in the three years before the as-of date
C16_StateSeverityPaired ==
    /\ SnapshotComputed => SnapshotPaired(snapshot[1].result)
    /\ ingest_out # None =>
          \A k \in DOMAIN ingest_out[1].states : Paired(ingest_out[1].states[k])

\* C16, state_from_quantiles alone: paired, and U exactly on a window of fewer than 60
C16_QuantilePaired ==
    (pc = "done" /\ qres # None) =>
        /\ Paired(qres[1])
        /\ qres[1].state = "U" <=> Cardinality(InWindow(history, asof_in)) < MinObs

\* C16, structure_state_from_slope alone: paired and never U
C16_StructurePaired ==
    (pc = "done" /\ sres # None) => (Paired(sres[1]) /\ sres[1].state # "U")

\* a snapshot with an Unknown indicator on a short window next to a quantile state on
\* a full window, a structure state and a Red liquidity state
C16_Witness ==
    /\ SnapshotComputed
    /\ \E k \in DOMAIN snapshot[1].result.indicators \cap CountedIndicators :
         /\ snapshot[1].result.indicators[k].state = "U"
         /\ InsufficientHistory(k, snapshot[1].result.asof)
    /\ "credit_spread" \in DOMAIN snapshot[1].result.indicators
    /\ snapshot[1].result.indicators["credit_spread"].state \in RealStates
    /\ ~InsufficientHistory("credit_spread", snapshot[1].result.asof)
    /\ "vix_structure" \in DOMAIN snapshot[1].result.indicators
    /\ "synthetic_liquidity" \in DOMAIN snapshot[1].result.indicators
    /\ snapshot[1].result.indicators["synthetic_liquidity"].state = "R"

(***************************************************************************)
(* Claims about the details of a quantile state                            *)
(***************************************************************************)
CarriesThresholdsAndValue(r, th, v) ==
    /\ {"q1", "q2", "value"} \subseteq DOMAIN r.details
    /\ th # None
    /\ r.details.q1 = th[1][1]
    /\ r.details.q2 = th[1][2]
    /\ r.details.value = v

\* C17: every result of state_from_quantiles, the insufficient-history one included,
\* carries the two thresholds and the classified value in its details
C17_DetailsAlways ==
    (pc = "done" /\ qres # None) =>
        CarriesThresholdsAndValue(qres[1],
                                  quantile_thresholds(history, asof_in, WindowDays, <<Q90, Q95>>),
                                  value)

\* C17, restricted to the classified results (G, Y, R)
C17_DetailsWhenClassified ==
    (pc = "done" /\ qres # None /\ qres[1].state \in RealStates) =>
        CarriesThresholdsAndValue(qres[1],
                                  quantile_thresholds(history, asof_in, WindowDays, <<Q90, Q95>>),
                                  value)

\* C17: the Unknown result carries the reason only, not the value
C17_UnknownCarriesReasonOnly ==
    (pc = "done" /\ qres # None /\ qres[1].state = "U") =>
        qres[1].details = [reason |-> "insufficient_history"]

C17_UnknownReached ==
    /\ pc = "done"
    /\ qres # None
    /\ qres[1].state = "U"
    /\ Cardinality(InWindow(history, asof_in)) = MinObs - 1

(***************************************************************************)
(* Claims about the allocation templates                                   *)
(***************************************************************************)
TemplateNames == {"Risk-On", "Neutral", "Risk-Off"}

WeightSum(w) == SeqSum(w, 1, Len(w))

\* the weights of a template or of an allocation sum to 1.0 (100 hundredths)
SumsToOne(t) ==
    /\ WeightSum(t.asset_class_weights) = 100
    /\ WeightSum(t.equity_bucket_weights) = 100

\* C18: the three built-in templates have asset-class weights and equity-bucket
\* weights that each sum to 1.0, and every allocation handed out by a snapshot holds
\* the weights and overlays of its template unchanged
C18_TemplateWeightsSumToOne ==
    /\ DOMAIN TEMPLATES = TemplateNames
    /\ \A n \in TemplateNames : TEMPLATES[n].name = n /\ SumsToOne(TEMPLATES[n])
    /\ (snap_regime # None /\ snap_regime[1].allocation # None) =>
          LET a == snap_regime[1].allocation[1]
          IN  /\ a.template_name \in TemplateNames
              /\ SumsToOne(a)
              /\ a.asset_class_weights = TEMPLATES[a.template_name].asset_class_weights
              /\ a.equity_bucket_weights = TEMPLATES[a.template_name].equity_bucket_weights
              /\ a.overlays = TEMPLATES[a.template_name].overlays

\* a snapshot that hands out the Risk-Off allocation after the ingestion step has
\* used the same template
C18_Witness ==
    /\ snap_regime # None
    /\ snap_regime[1].allocation # None
    /\ snap_regime[1].allocation[1].template_name = "Risk-Off"
    /\ ing_regime # None
    /\ ing_regime[1].row # None
    /\ ing_regime[1].row[1].template_name = "Risk-Off"

(***************************************************************************)
(* Claims about the template of a regime                                   *)
(***************************************************************************)
\* the mapping as the claim states it
TemplateNameOf(code) ==
    CASE code = "A" -> "Risk-On"
      [] code = "B" -> "Neutral"
      [] code = "C" -> "Risk-Off"

OtherCodes == {"D", "U", "a", "", "Risk-On"}

RegimeMapsToTemplate ==
    /\ \A c \in {"A", "B", "C"} :
         /\ template_for_regime(c) # None
         /\ template_for_regime(c)[1] = TEMPLATES[TemplateNameOf(c)]
         /\ template_for_regime(c)[1].name = TemplateNameOf(c)
    /\ \A c \in OtherCodes : template_for_regime(c) = None
    /\ \A c1, c2 \in {"A", "B", "C"} :
         c1 # c2 => template_for_regime(c1) # template_for_regime(c2)

\* C19: template_for_regime maps A, B, C to three distinct templates Risk-On, Neutral,
\* Risk-Off and anything else to none; a snapshot has an allocation exactly when it
\* has a regime, the regime is dated on the as-of date, and the allocation and the
\* regime both carry the name of the template mapped from the regime code
C19_AllocationFollowsRegime ==
    /\ RegimeMapsToTemplate
    /\ snap_regime # None =>
          /\ snap_regime[1].allocation # None <=> snap_regime[1].regime # None
          /\ snap_regime[1].regime # None =>
                LET r == snap_regime[1].regime[1]
                    a == snap_regime[1].allocation[1]
                IN  /\ r.date = asof_in
                    /\ r.regime \in {"A", "B", "C"}
                    /\ r.template_name = TemplateNameOf(r.regime)
                    /\ a.template_name = r.template_name

\* C19 on the snapshots built from the store: the regime is dated on the as-of date of
\* the snapshot and the allocation follows it
C19_SnapshotRegimeDate ==
    SnapshotComputed =>
        LET res == snapshot[1].result
        IN  /\ res.allocation # None <=> res.regime # None
            /\ res.regime # None =>
                  /\ res.regime[1].date = res.asof
                  /\ res.regime[1].template_name = TemplateNameOf(res.regime[1].regime)
                  /\ res.allocation[1].template_name = res.regime[1].template_name

\* a snapshot with regime C and the Risk-Off allocation
C19_Witness ==
    /\ snap_regime # None
    /\ snap_regime[1].regime # None
    /\ snap_regime[1].regime[1].regime = "C"
    /\ snap_regime[1].allocation # None
    /\ snap_regime[1].allocation[1].template_name = "Risk-Off"

\* a snapshot without regime and without allocation
C19_NoRegimeReached ==
    /\ snap_regime # None
    /\ snap_regime[1].regime = None
    /\ snap_regime[1].allocation = None

(***************************************************************************)
(* Claims about the independence of the indicators                         *)
(***************************************************************************)
Blocks == {"liquidity", "credit", "funding", "treasury", "volatility", "usd"}

\* the stored series that a block of build_snapshot reads, and the keys it may add
InputsOf(b) ==
    CASE b = "liquidity" -> {"walcl", "tga", "rrp"}
      [] b = "credit" -> {"hy_oas"}
      [] b = "funding" -> {"funding_spread"}
      [] b = "treasury" -> {"treasury_realized_vol_20d", "dgs10"}
      [] b = "volatility" -> {"vix_slope", "vix"}
      [] b = "usd" -> {"usd_twi_broad"}

KeysOf(b) ==
    CASE b = "liquidity" -> {"synthetic_liquidity"}
      [] b = "credit" -> {"credit_spread"}
      [] b = "funding" -> {"funding_stress"}
      [] b = "treasury" -> {"treasury_vol"}
      [] b = "volatility" -> {"vix_structure", "vix_level"}
      [] b = "usd" -> {"usd_strength"}

BlockOf(b, obs, asof) ==
    CASE b = "liquidity" -> LiquidityBlock(obs, asof)
      [] b = "credit" -> CreditBlock(obs, asof)
      [] b = "funding" -> FundingBlock(obs, asof)
      [] b = "treasury" -> TreasuryBlock(obs, asof)
      [] b = "volatility" -> SnapshotVolState(obs, asof)
      [] b = "usd" -> UsdBlock(obs, asof)

Perturbations == {"removed", "revalued", "toggled"}

\* the last value of s before asof, 0 if there is none
NearValue(s, asof) ==
    LET E == {e \in DOMAIN s : e < asof}
    IN  IF E = {} THEN 0 ELSE s[SetMax(E)]

\* a series removed, given other values on the same dates, or with the row of the
\* as-of date removed or added
PerturbSeries(s, kind, asof) ==
    CASE kind = "removed" -> EmptySeries
      [] kind = "revalued" -> Eager([d \in DOMAIN s |-> s[d] + 1 + (d % 2)])
      [] kind = "toggled" ->
            IF asof \in DOMAIN s THEN Restrict(s, DOMAIN s \ {asof})
            ELSE Eager((asof :> NearValue(s, asof) + 1) @@ s)

\* the store in which every series but those of `keep` is perturbed
PerturbOthers(obs, keep, kind, asof) ==
    [k \in DOMAIN obs |-> IF k \in keep THEN obs[k] ELSE PerturbSeries(obs[k], kind, asof)]

\* the entries of `inds` under the keys of K
Only(inds, K) == Restrict(inds, DOMAIN inds \cap K)

\* C20: on the as-of date of a snapshot, removing, changing or adding observations of
\* the series that a block does not read leaves the indicator of the block, its
\* presence and its (state, score, details), unchanged; the blocks add disjoint keys,
\* so the order in which they run does not matter
C20_IndicatorsIndependent ==
    SnapshotComputed =>
        /\ \A b \in Blocks, kind \in Perturbations :
              BlockOf(b, PerturbOthers(observation, InputsOf(b), kind, snapshot[1].result.asof),
                      snapshot[1].result.asof)
                 = Only(snapshot[1].result.indicators, KeysOf(b))
        /\ \A b \in Blocks :
              DOMAIN BlockOf(b, observation, snapshot[1].result.asof) \subseteq KeysOf(b)

\* a snapshot with liquidity, credit, funding, treasury and volatility states in which
\* other values of the credit series change the credit state's details
C20_Witness ==
    /\ SnapshotComputed
    /\ {"synthetic_liquidity", "credit_spread", "funding_stress", "treasury_vol"}
          \subseteq DOMAIN snapshot[1].result.indicators
    /\ CreditBlock(PerturbOthers(observation, {}, "revalued", snapshot[1].result.asof),
                   snapshot[1].result.asof)
          # Only(snapshot[1].result.indicators, KeysOf("credit"))

(***************************************************************************)
(* Specification SpecLiquidity: the net-liquidity level and weekly delta   *)
(* of build_snapshot and of ingest_and_compute, for every choice of WALCL, *)
(* TGA and RRP dates in 0..MaxWeek.                                        *)
(***************************************************************************)
MaxWeek == 3

WalclValue(d) == 1000 + 10 * d * d
TgaValue(d) == 100 + 3 * d
RrpValue(d) == 50 + d * d * d

\* the store holding the three series only
LiquidityStore(a) ==
    [EmptyStore EXCEPT !["walcl"] = a.walcl, !["tga"] = a.tga, !["rrp"] = a.rrp]

\* the dict `fetched`; an RRP fetch that failed leaves no key
LiquidityFetched(a) ==
    ("walcl" :> a.walcl) @@ ("tga" :> a.tga)
        @@ (IF a.rrp_fetched THEN ("rrp" :> a.rrp) ELSE << >>)

InitLiquidity ==
    /\ \E W \in SUBSET (0..MaxWeek), T \in SUBSET (0..MaxWeek), R \in SUBSET (0..MaxWeek) :
         args = Some([walcl |-> Eager([d \in W |-> WalclValue(d)]),
                      tga |-> Eager([d \in T |-> TgaValue(d)]),
                      rrp |-> Eager([d \in R |-> RrpValue(d)]),
                      rrp_fetched |-> R # {}])
    /\ ret = None
    /\ RulesIdle
    /\ AggIdle
    /\ StoreIdle
    /\ UpsertIdle
    /\ pc = "input"

\* _synthetic_liquidity_delta_w on the stored series
SnapshotLiquidityDelta ==
    /\ pc = "input"
    /\ ret' = Some([delta |-> synthetic_liquidity_delta_w(LiquidityStore(args[1]), MaxWeek)])
    /\ pc' = "snapshot"
    /\ UNCHANGED <<args, upsertVars, ruleVars, slopeVars, aggVars, storeVars>>

\* ingest_and_compute, lines 136-167, on the fetched series
IngestLiquidityDelta ==
    /\ pc = "input"
    /\ \E w \in {IngestDerived(LiquidityFetched(args[1]))} :
         ret' = Some([level |-> w["synthetic_liquidity_level"],
                      delta |-> w["synthetic_liquidity_delta_w"]])
    /\ pc' = "ingest"
    /\ UNCHANGED <<args, upsertVars, ruleVars, slopeVars, aggVars, storeVars>>

NextLiquidity == SnapshotLiquidityDelta \/ IngestLiquidityDelta

SpecLiquidity == InitLiquidity /\ [][NextLiquidity]_vars

(***************************************************************************)
(* Claims about the net-liquidity delta                                    *)
(***************************************************************************)
\* the value of s as of d: the latest observation at or before d, if any
AsOfValue(s, d) ==
    LET E == {e \in DOMAIN s : e <= d}
    IN  IF E = {} THEN None ELSE Some(s[SetMax(E)])

\* the base dates that keep a level: those with a TGA value as of the date
RetainedDates(a) == {d \in DOMAIN a.walcl : AsOfValue(a.tga, d) # None}

LevelOn(a, d) ==
    a.walcl[d] - AsOfValue(a.tga, d)[1]
        - (IF AsOfValue(a.rrp, d) = None THEN 0 ELSE AsOfValue(a.rrp, d)[1])

RetainedBefore(a, d) == {e \in RetainedDates(a) : e < d}

DeltaAsClaimed(a) ==
    [d \in {x \in RetainedDates(a) : RetainedBefore(a, x) # {}} |->
        LevelOn(a, d) - LevelOn(a, SetMax(RetainedBefore(a, d)))]

\* C21: the level exists on the WALCL dates with a TGA value as of the date and is
\* WALCL - TGA as of the date - RRP as of the date (0 when RRP has none); the delta
\* exists on every retained date but the first and is the level minus the level of
\* the retained date before; in build_snapshot and in ingest_and_compute
C21_NetLiquidityDelta ==
    /\ pc = "snapshot" => ret[1].delta = DeltaAsClaimed(args[1])
    /\ pc = "ingest" =>
          /\ ret[1].level = [d \in RetainedDates(args[1]) |-> LevelOn(args[1], d)]
          /\ ret[1].delta = DeltaAsClaimed(args[1])

\* WALCL on weeks 0, 2, 3, the first TGA row on week 1 and the first RRP row on week 3:
\* week 0 is dropped, week 2 has no delta, week 3 has one
C21_Witness ==
    /\ pc = "snapshot"
    /\ DOMAIN args[1].walcl = {0, 2, 3}
    /\ DOMAIN args[1].tga = {1}
    /\ DOMAIN args[1].rrp = {3}
    /\ DOMAIN ret[1].delta = {3}
    /\ ret[1].delta[3] = (WalclValue(3) - TgaValue(1) - RrpValue(3))
                           - (WalclValue(2) - TgaValue(1))

(***************************************************************************)
(* Specification SpecSpread: the funding spread and the VIX slope built by *)
(* ingest_and_compute from series over the dates 0..MaxWeek.  `first` is   *)
(* SOFR or VIX; `second` is IORB or VXV and `third` is EFFR, either of     *)
(* which may have failed to fetch.                                         *)
(***************************************************************************)
FirstValue(d) == 500 + d * d
SecondValue(d) == 490 + d
ThirdValue(d) == 300 + 2 * d

\* a fetched series over the dates of D, or None for a failed fetch
MaybeSeries == {None} \cup {Some(D) : D \in SUBSET (0..MaxWeek)}

InitSpread ==
    /\ \E A \in SUBSET (0..MaxWeek), B \in MaybeSeries, C \in MaybeSeries :
         args = Some([first |-> Eager([d \in A |-> FirstValue(d)]),
                      second |-> IF B = None THEN None
                                 ELSE Some(Eager([d \in B[1] |-> SecondValue(d)])),
                      third |-> IF C = None THEN None
                                ELSE Some(Eager([d \in C[1] |-> ThirdValue(d)]))])
    /\ ret = None
    /\ RulesIdle
    /\ AggIdle
    /\ StoreIdle
    /\ UpsertIdle
    /\ pc = "input"

OptEntry(k, opt) == IF opt = None THEN << >> ELSE (k :> opt[1])

DerivedOrNone(w, k) == IF k \in DOMAIN w THEN Some(w[k]) ELSE None

\* ingest_and_compute, lines 169-175, with SOFR, IORB and EFFR as fetched
FundingSpread ==
    /\ pc = "input"
    /\ \E w \in {IngestDerived(("sofr" :> args[1].first) @@ OptEntry("iorb", args[1].second)
                                 @@ OptEntry("effr", args[1].third))} :
         ret' = Some([derived |-> DerivedOrNone(w, "funding_spread"),
                      aligned |-> IF args[1].second = None THEN None
                                  ELSE Some(align_on_dates(<<args[1].first, args[1].second[1]>>))])
    /\ pc' = "funding"
    /\ UNCHANGED <<args, upsertVars, ruleVars, slopeVars, aggVars, storeVars>>

\* ingest_and_compute, lines 177-182, with VIX and VXV as fetched
VixSlope ==
    /\ pc = "input"
    /\ \E w \in {IngestDerived(("vix" :> args[1].first) @@ OptEntry("vxv", args[1].second))} :
         ret' = Some([derived |-> DerivedOrNone(w, "vix_slope"),
                      aligned |-> IF args[1].second = None THEN None
                                  ELSE Some(align_on_dates(<<args[1].first, args[1].second[1]>>))])
    /\ pc' = "slope"
    /\ UNCHANGED <<args, upsertVars, ruleVars, slopeVars, aggVars, storeVars>>

NextSpread == FundingSpread \/ VixSlope

SpecSpread == InitSpread /\ [][NextSpread]_vars

(***************************************************************************)
(* Claims about the series derived on common dates                         *)
(***************************************************************************)
\* s is defined exactly on the dates that a and b share and is a - b there
IsDifferenceOnSharedDates(s, a, b) ==
    /\ \A d \in 0..MaxWeek : d \in DOMAIN s <=> (d \in DOMAIN a /\ d \in DOMAIN b)
    /\ \A d \in DOMAIN s : s[d] = a[d] - b[d]

\* the two series are the inputs on exactly their shared dates
IsRestrictionToSharedDates(al, a, b) ==
    /\ Len(al) = 2
    /\ DOMAIN al[1] = DOMAIN a \cap DOMAIN b
    /\ DOMAIN al[2] = DOMAIN a \cap DOMAIN b
    /\ \A d \in DOMAIN al[1] : al[1][d] = a[d] /\ al[2][d] = b[d]

\* the base of the funding spread: IORB when fetched, else EFFR
FundingBase(a) == IF a.second # None THEN a.second ELSE a.third

\* C22: align_on_dates restricts its inputs to the dates they share; the funding
\* spread (SOFR minus IORB, or minus EFFR when IORB was not fetched) and the VIX slope
\* (VIX minus VXV), when built, are defined exactly on the shared dates of their two
\* inputs and are the difference of the two observations there
C22_DerivedOnSharedDates ==
    (pc \in {"funding", "slope"}) =>
        /\ ret[1].aligned # None =>
              IsRestrictionToSharedDates(ret[1].aligned[1], args[1].first, args[1].second[1])
        /\ (pc = "funding" /\ ret[1].derived # None) =>
              /\ FundingBase(args[1]) # None
              /\ IsDifferenceOnSharedDates(ret[1].derived[1], args[1].first,
                                           FundingBase(args[1])[1])
        /\ (pc = "slope" /\ ret[1].derived # None) =>
              /\ args[1].second # None
              /\ IsDifferenceOnSharedDates(ret[1].derived[1], args[1].first, args[1].second[1])

\* SOFR on days 0, 1, 3 and IORB on days 1, 2, 3, with EFFR on day 0: the spread is
\* defined on days 1 and 3 only
C22_Witness ==
    /\ pc = "funding"
    /\ DOMAIN args[1].first = {0, 1, 3}
    /\ args[1].second # None
    /\ DOMAIN args[1].second[1] = {1, 2, 3}
    /\ args[1].third # None
    /\ DOMAIN args[1].third[1] = {0}
    /\ ret[1].derived # None
    /\ DOMAIN ret[1].derived[1] = {1, 3}
    /\ ret[1].derived[1][3] = FirstValue(3) - SecondValue(3)

(***************************************************************************)
(* Specification SpecFetch: one run of ingest_and_compute on an empty      *)
(* store in which the fetch of any subset of the base series fails.  Every *)
(* fetched series has an observation on each day of 0..MaxWeek.            *)
(***************************************************************************)
\* ingest_and_compute, lines 119-126: the dict `fetched` when the keys of `failed` raise
FetchedBut(failed) ==
    Eager([k \in BaseKeys \ failed |-> Eager([d \in 0..MaxWeek |-> FredValue(k, d)])])

ErrorsOf(failed) == [k \in failed |-> "error"]

InitFetch ==
    /\ \E failed \in SUBSET BaseKeys : args = Some([failed |-> failed])
    /\ ret = None
    /\ RulesIdle
    /\ AggIdle
    /\ StoreIdle
    /\ UpsertIdle
    /\ pc = "input"

\* the run: the result of ingest_and_compute and the derived series it built
RunIngest ==
    /\ pc = "input"
    /\ \E fetched \in {FetchedBut(args[1].failed)} :
         \E r \in {ingest_and_compute(EmptyStore, {}, {}, fetched,
                                      ErrorsOf(args[1].failed), MaxWeek)} :
             ret' = Some([out |-> r.out, observation |-> r.observation,
                          states |-> r.states,
                          derived |-> DOMAIN IngestDerived(fetched)])
    /\ pc' = "returned"
    /\ UNCHANGED <<args, upsertVars, ruleVars, slopeVars, aggVars, storeVars>>

NextFetch == RunIngest

SpecFetch == InitFetch /\ [][NextFetch]_vars

(***************************************************************************)
(* Claims about failed fetches                                             *)
(***************************************************************************)
\* the base series a derived series is computed from
DerivedInputs(k) ==
    CASE k \in {"synthetic_liquidity_level", "synthetic_liquidity_delta_w"} ->
            {"walcl", "tga", "rrp"}
      [] k = "funding_spread" -> {"sofr"}
      [] k = "vix_slope" -> {"vix", "vxv"}
      [] k = "treasury_realized_vol_20d" -> {"dgs10"}

\* the inputs without which the code does not build the series
RequiredInputs(k) ==
    IF k \in {"synthetic_liquidity_level", "synthetic_liquidity_delta_w"}
    THEN {"walcl", "tga"} ELSE DerivedInputs(k)

FundingBaseFetched(F) == "iorb" \in F \/ "effr" \in F

\* the run returned: failed keys in errors, fetched keys listed and stored
C23_FetchedAndErrorsPartition ==
    pc = "returned" =>
        LET F == ret[1].out.base_series_fetched
            E == DOMAIN ret[1].out.errors
        IN  /\ E = args[1].failed
            /\ F \cap E = {}
            /\ F \cup E = BaseKeys
            /\ \A k \in BaseKeys :
                 (k \in F) <=> (DOMAIN ret[1].observation[k] = 0..MaxWeek)

\* C23: a run in which the fetch of any set of base series fails returns with the
\* failed keys in `errors` and the others stored and listed in `base_series_fetched`,
\* and a derived series is built only if every base series it is computed from was
\* fetched
C23_DerivedOnlyFromFetched ==
    /\ C23_FetchedAndErrorsPartition
    /\ pc = "returned" =>
          \A k \in ret[1].derived :
              /\ DerivedInputs(k) \subseteq ret[1].out.base_series_fetched
              /\ k = "funding_spread" => FundingBaseFetched(ret[1].out.base_series_fetched)

\* C23 with RRP as an optional input: a derived series is built exactly when the
\* inputs the code requires were fetched
C23_DerivedIffRequiredFetched ==
    pc = "returned" =>
        \A k \in DerivedKeys :
            k \in ret[1].derived <=>
                /\ RequiredInputs(k) \subseteq ret[1].out.base_series_fetched
                /\ k = "funding_spread" => FundingBaseFetched(ret[1].out.base_series_fetched)

\* the net-liquidity level stored by a run whose RRP fetch failed is WALCL - TGA, the
\* level of a run that fetched RRP is lower by RRP
C23_LevelWithoutRrp ==
    (pc = "returned" /\ "synthetic_liquidity_level" \in ret[1].derived) =>
        \A d \in DOMAIN ret[1].observation["synthetic_liquidity_level"] :
            ret[1].observation["synthetic_liquidity_level"][d] =
                FredValue("walcl", d) - FredValue("tga", d)
                   - (IF "rrp" \in args[1].failed THEN 0 ELSE FredValue("rrp", d))

C23_RrpFailedReached ==
    /\ pc = "returned"
    /\ args[1].failed = {"rrp"}
    /\ "synthetic_liquidity_delta_w" \in ret[1].derived
    /\ ret[1].out.errors = [k \in {"rrp"} |-> "error"]

(***************************************************************************)
(* Specification SpecTertile: the liquidity-direction block of             *)
(* build_snapshot and ingest_and_compute applied to a delta series: a run  *)
(* of n consecutive observations ending the day before asof, with or       *)
(* without an observation on asof, on the first day of the window and on   *)
(* the day before the window.                                              *)
(***************************************************************************)
\* the delta on the as-of date, or None when the series has no row on that date
TertileValues == {None} \cup {Some(v) : v \in {-1000, 5, 6, 7, 12, 13, 1000}}

TertileEdges(asof) == {asof - TertileWindowDays, asof - TertileWindowDays - 1}

MakeDeltas(asof, n, p, edges, v) ==
    Eager([d \in ((asof - n)..(asof - 1)) \cup edges \cup (IF v = None THEN {} ELSE {asof}) |->
              IF d = asof THEN v[1]
              ELSE IF d \in edges THEN 1000
              ELSE PatternValue(p, d)])

InitTertile ==
    /\ asof_in = 2000
    /\ \E n \in (MinObs - 2)..(MinObs + ExtraObs), p \in {"const", "ramp"},
          e \in SUBSET TertileEdges(asof_in), v \in TertileValues :
         history = MakeDeltas(asof_in, n, p, e, v)
    /\ history2 = EmptySeries
    /\ value = 0
    /\ high_is_riskoff = TRUE
    /\ qres = None
    /\ qres2 = None
    /\ slope = 0
    /\ flat_band = FlatBandDefault
    /\ sres = None
    /\ AggIdle
    /\ StoreIdle
    /\ CallIdle
    /\ UpsertIdle
    /\ pc = "input"

\* snapshot_logic.py lines 152-168 and ingest.py lines 350-372 on liq_hist = history
ClassifyLiquidity ==
    /\ pc = "input"
    /\ ret' = Some(LiquidityState(history, asof_in))
    /\ pc' = "done"
    /\ UNCHANGED <<args, upsertVars, ruleVars, slopeVars, aggVars, storeVars>>

NextTertile == ClassifyLiquidity

SpecTertile == InitTertile /\ [][NextTertile]_vars

(***************************************************************************)
(* Claims about the liquidity direction                                    *)
(***************************************************************************)
TertileResult(st, sc, v, q_lo, q_hi, l) ==
    [state |-> st, score |-> Some(sc),
     details |-> [value |-> v, q_lo |-> q_lo, q_hi |-> q_hi, label |-> l]]

\* the state the claim gives to the delta v with the tertiles q_lo and q_hi
TertileAsClaimed(v, q_lo, q_hi) ==
    IF 100 * v >= q_hi THEN TertileResult("G", 0, v, q_lo, q_hi, "net_inject")
    ELSE IF 100 * v <= q_lo THEN TertileResult("R", 2, v, q_lo, q_hi, "net_withdraw")
    ELSE TertileResult("Y", 1, v, q_lo, q_hi, "flat")

C24_YellowReached ==
    /\ pc = "done"
    /\ ret[1] # None
    /\ ret[1][1].state = "Y"
    /\ ret[1][1].details.label = "flat"

C24_RedReached == pc = "done" /\ ret[1] # None /\ ret[1][1].state = "R"

C24_UnknownReached ==
    /\ pc = "done"
    /\ ret[1] # None
    /\ ret[1][1].state = "U"
    /\ Cardinality(InWindow(history, asof_in)) = 59

C24_NoStateReached ==
    pc = "done" /\ ret[1] = None /\ Cardinality(InWindow(history, asof_in)) >= 60

(***************************************************************************)
(* Claims about time travel                                                *)
(***************************************************************************)
FutureChanges == {"removed", "revalued", "toggled"}

\* the series s with its rows dated after d removed, given other values, or with the
\* row of the day after d removed or added
ChangeAfter(s, kind, d) ==
    CASE kind = "removed" -> Restrict(s, {e \in DOMAIN s : e <= d})
      [] kind = "revalued" ->
            Eager([e \in DOMAIN s |-> IF e > d THEN s[e] + 1 + (e % 2) ELSE s[e]])
      [] kind = "toggled" ->
            IF d + 1 \in DOMAIN s THEN Restrict(s, DOMAIN s \ {d + 1})
            ELSE Eager((d + 1 :> NearValue(s, d + 1) + 1) @@ s)

StoreChangedAfter(obs, kind, d) == [k \in DOMAIN obs |-> ChangeAfter(obs[k], kind, d)]

\* the end date of a snapshot: the requested date, today when none is requested
EndDate(s) == IF s.requested_asof # None THEN s.requested_asof[1] ELSE s.now

\* C25: the snapshot for the date d is the snapshot of the store whose observations
\* dated after d are removed, changed or added to, and its as-of date is at most d
C25_TimeTravel ==
    snapshot # None =>
        /\ \A kind \in FutureChanges :
              build_snapshot(StoreChangedAfter(observation, kind, EndDate(snapshot[1])),
                             snapshot[1].requested_asof, snapshot[1].now)
                 = snapshot[1].result
        /\ "asof" \in DOMAIN snapshot[1].result =>
              snapshot[1].result.asof <= EndDate(snapshot[1])

\* a snapshot for a past date, with indicator states, of a store that holds
\* observations of its source series dated after that date
C25_Witness ==
    /\ snapshot # None
    /\ snapshot[1].requested_asof # None
    /\ "asof" \in DOMAIN snapshot[1].result
    /\ DOMAIN snapshot[1].result.indicators # {}
    /\ snapshot[1].result.regime # None
    /\ \A k \in {"hy_oas", "vix", "dgs10", "walcl", "synthetic_liquidity_delta_w"} :
          \E e \in DOMAIN observation[k] : e > snapshot[1].requested_asof[1]

(***************************************************************************)
(* ingest.py, lines 236-304: the per-industry loop of ingest_and_compute.  *)
(* An industry code is a number, an observation key the pair               *)
(* <<series name, code>>.  The loop starts after the db.commit() of line   *)
(* 234, so the session holds no pending write at the top of an iteration.  *)
(***************************************************************************)
MaxIndustries == 2

CnToday == MaxDay + 1
\* CN_INDUSTRIES_DAYS
CnMaxDays == MaxDay - 1

CnSeriesNames == {"cn_industry_close", "cn_industry_amount", "cn_industry_return",
                  "cn_industry_flow_main_net"}
CnKeys == CnSeriesNames \X (1..MaxIndustries)
EmptyCnStore == [k \in CnKeys |-> EmptySeries]

\* select(func.max(Observation.date)).where(indicator_key == k)
LastDate(store, k) == IF DOMAIN store[k] = {} THEN None ELSE Some(SetMax(DOMAIN store[k]))

\* lines 241-244 and 284-286: the first date to write
StartAfter(last, start) == IF last # None /\ last[1] >= start THEN last[1] + 1 ELSE start

\* the float Series of a fetched frame
FloatSeries(f) == Eager([d \in DOMAIN f |-> Some(f[d])])

\* s.loc[s.index >= start]
FromDate(s, start) == Restrict(s, {d \in DOMAIN s : d >= start})

\* fetch_industry_hist_em(name, start, end): the rows the source returns, which may
\* begin before `start`
HistClose(code, start, end) == Eager([d \in (start - 1)..end |-> 100 * code + 10 * d])
HistAmount(code, start, end) == Eager([d \in (start - 1)..end |-> 1000 * code + d])
\* df_to_series: close.pct_change().dropna(), in hundredths of a percent
PctChange(close) ==
    LET D == {d \in DOMAIN close : \E e \in DOMAIN close : e < d}
    IN  Eager([d \in D |->
                 ((close[d] - close[PrevDate(DOMAIN close, d)[1]]) * 10000)
                     \div close[PrevDate(DOMAIN close, d)[1]]])
\* fetch_sector_fund_flow_hist_em(name): the full history
FlowMainNet(code, end) == Eager([d \in 1..end |-> 7 * code - d])

\* the value _upsert_observations returns
upsert_count(eng, s, k, series) ==
    IF eng = "postgresql" THEN Cardinality({d \in DOMAIN series : series[d] # None})
    ELSE Cardinality({d \in DOMAIN series : series[d] # None /\ d \notin DOMAIN s.tx[k]})

\* `if not x.empty: x = x.loc[x.index >= start]; if not x.empty: cn_inserted += _upsert_observations(...)`
CnUpsert(eng, st, k, series, start) ==
    LET x == FromDate(series, start)
    IN  IF DOMAIN x = {} THEN st
        ELSE [session |-> upsert_session(eng, st.session, k, FloatSeries(x)),
              inserted |-> st.inserted + upsert_count(eng, st.session, k, FloatSeries(x))]

\* the (key, date) pairs a session has written and not committed
Pending(store, s) ==
    {<<k, d>> \in CnKeys \X (0..CnToday) :
        d \in DOMAIN s.tx[k] /\ (d \notin DOMAIN store[k] \/ store[k][d] # s.tx[k][d])}
      \cup {<<s.added[i][1], s.added[i][2]>> : i \in DOMAIN s.added}

\* the mutant: no rollback, the writes of a failed iteration reach the store
CnOutcomeWithoutRollback(store, s, inserted, error, outcome) ==
    [pending |-> Pending(store, s),
     store |-> Flush(s.tx, s.added),
     inserted |-> inserted, error |-> error, outcome |-> outcome]

CnOutcome(store, s, inserted, error, outcome) ==
    [pending |-> Pending(store, s),
     store |-> IF outcome = "committed" THEN Flush(s.tx, s.added) ELSE store,
     inserted |-> inserted, error |-> error, outcome |-> outcome]

\* one iteration of `for it in industries` (lines 238-304).  hist and flow say what
\* the two fetches return; fault names the statement that raises a handled error:
\* the fetch of the prices, or the handling of the amount, return or flow series
CnIteration(eng, store, inserted, code, hist, flow, fault) ==
    LET s0 == SessionLocal(store)
        start == StartAfter(LastDate(store, <<"cn_industry_close", code>>), CnToday - CnMaxDays)
        close == IF hist = "data" THEN HistClose(code, start, CnToday) ELSE EmptySeries
        amount == IF hist = "data" THEN HistAmount(code, start, CnToday) ELSE EmptySeries
        returns == PctChange(close)  \* `ret` in the source
        main_net == IF flow = "data" THEN FlowMainNet(code, CnToday) ELSE EmptySeries
        flow_start == StartAfter(LastDate(store, <<"cn_industry_flow_main_net", code>>), start)
        st1 == CnUpsert(eng, [session |-> s0, inserted |-> inserted],
                        <<"cn_industry_close", code>>, close, start)
        st2 == CnUpsert(eng, st1, <<"cn_industry_amount", code>>, amount, start)
        st3 == CnUpsert(eng, st2, <<"cn_industry_return", code>>, returns, start)
        st4 == IF DOMAIN main_net # {} /\ flow_start <= CnToday
               THEN CnUpsert(eng, st3, <<"cn_industry_flow_main_net", code>>, main_net, flow_start)
               ELSE st3
    IN  IF start > CnToday THEN CnOutcome(store, s0, inserted, None, "skipped")
        ELSE IF fault = "fetch" THEN CnOutcome(store, s0, inserted, Some("error"), "raised")
        ELSE IF DOMAIN close = {} /\ DOMAIN main_net = {}
             THEN CnOutcome(store, s0, inserted,
                            Some("AkShare returned empty data (close+flow)"), "committed")
        ELSE IF fault = "amount"
             THEN CnOutcome(store, st1.session, st1.inserted, Some("error"), "raised")
        ELSE IF fault = "return"
             THEN CnOutcome(store, st2.session, st2.inserted, Some("error"), "raised")
        ELSE IF fault = "flow" /\ DOMAIN main_net # {}
             THEN CnOutcome(store, st3.session, st3.inserted, Some("error"), "raised")
        ELSE CnOutcome(store, st4.session, st4.inserted, None, "committed")

(***************************************************************************)
(* Specification SpecIndustries: the loop over MaxIndustries industries,   *)
(* on either engine, from an empty store or a store that already holds     *)
(* prices of the first industry up to today and of the second up to        *)
(* yesterday.                                                              *)
(***************************************************************************)
CnInitialStores ==
    {EmptyCnStore,
     [k \in CnKeys |->
        IF k = <<"cn_industry_close", 1>> THEN (CnToday :> 1)
        ELSE IF k = <<"cn_industry_close", 2>> THEN (CnToday - 1 :> 2)
        ELSE IF k = <<"cn_industry_flow_main_net", 2>> THEN (CnToday - 1 :> 3)
        ELSE EmptySeries]}

InitIndustries ==
    /\ engine \in {"postgresql", "sqlite"}
    /\ observation \in CnInitialStores
    /\ session = None
    /\ written = << >>
    /\ last_commit = "none"
    /\ today = CnToday
    /\ indicator_state = {}
    /\ regime_state = {}
    /\ ingest_out = Some([cn_errors |-> << >>, cn_inserted |-> 0])
    /\ snapshot = None
    /\ runs = 0
    /\ advances = 0
    /\ RulesIdle
    /\ AggIdle
    /\ CallIdle
    /\ pc = "cn_loop"

\* the next iteration of the loop; `runs` industries have been processed
IndustryIteration ==
    /\ pc = "cn_loop"
    /\ runs < MaxIndustries
    /\ \E hist \in {"empty", "data"}, flow \in {"raise", "empty", "data"},
          fault \in {"none", "fetch", "amount", "return", "flow"} :
         \E r \in {CnIteration(engine, observation, ingest_out[1].cn_inserted,
                               runs + 1, hist, flow, fault)} :
            /\ observation' = r.store
            /\ ingest_out' = Some([cn_errors |-> IF r.error = None THEN ingest_out[1].cn_errors
                                                 ELSE (runs + 1 :> r.error[1]) @@ ingest_out[1].cn_errors,
                                   cn_inserted |-> r.inserted])
            /\ written' = Append(written, [code |-> runs + 1, outcome |-> r.outcome,
                                           pending |-> r.pending, before |-> observation])
            /\ last_commit' = IF r.outcome = "committed" THEN "ok"
                              ELSE IF r.outcome = "raised" THEN "rollback" ELSE last_commit
    /\ runs' = runs + 1
    /\ UNCHANGED <<callVars, ruleVars, slopeVars, aggVars, pc, engine, session, today,
                   indicator_state, regime_state, snapshot, advances>>

\* the end of the loop (line 305)
IndustriesDone ==
    /\ pc = "cn_loop"
    /\ runs = MaxIndustries
    /\ pc' = "cn_done"
    /\ UNCHANGED <<callVars, ruleVars, slopeVars, aggVars, upsertVars, storeVars>>

NextIndustries == IndustryIteration \/ IndustriesDone

SpecIndustries == InitIndustries /\ [][NextIndustries]_vars

(***************************************************************************)
(* Claims about the per-industry loop                                      *)
(***************************************************************************)
LastIteration == written[Len(written)]

\* the store restricted to the keys of the industries in C
StoreOf(store, C) == [k \in {x \in CnKeys : x[2] \in C} |-> store[k]]

\* C26: an iteration that raises a handled error leaves the store as it was before the
\* iteration and records the error under the code of its industry, and the loop ends
\* only after the last industry of the list; the rows of an industry change only in
\* the iteration of that industry, so what earlier industries committed remains
C26_FailedIndustryRolledBack ==
    /\ (written # << >> /\ LastIteration.outcome = "raised") =>
        /\ observation = LastIteration.before
        /\ LastIteration.code \in DOMAIN ingest_out[1].cn_errors
        /\ runs = LastIteration.code
    /\ (pc = "cn_done" => runs = MaxIndustries)
    /\ \A i \in DOMAIN written :
          StoreOf(observation, {written[i].code})
              = StoreOf(IF i < Len(written) THEN written[i + 1].before ELSE observation,
                        {written[i].code})

\* the first industry committed rows, the second wrote rows and then raised
C26_Witness ==
    /\ Len(written) = 2
    /\ written[1].outcome = "committed"
    /\ written[1].pending # {}
    /\ written[2].outcome = "raised"
    /\ written[2].pending # {}
    /\ \A p \in written[1].pending : p[2] \in DOMAIN observation[p[1]]
    /\ \A p \in written[2].pending : p[2] \notin DOMAIN observation[p[1]]

\* the first industry raised after writing and the second was processed and committed
C26_ContinuesReached ==
    /\ Len(written) = 2
    /\ written[1].outcome = "raised"
    /\ written[1].pending # {}
    /\ written[2].outcome = "committed"
    /\ written[2].pending # {}
    /\ DOMAIN ingest_out[1].cn_errors = {1}

(***************************************************************************)
(* sources/cn_industries.py and sources/cn_sector_fund_flow.py, _retry     *)
(* (the two definitions are the same).  args is the frame of the call:     *)
(* its parameters, the loop index i and `last`; written is the trace of    *)
(* calls of fn and of time.sleep; delays are in milliseconds.              *)
(***************************************************************************)
\* attempts: int = 4
DefaultAttempts == 4
\* base_delay_s: float = 0.6
DefaultBaseDelay == 600
MaxAttempts == 5

RECURSIVE Pow2(_)
Pow2(n) == IF n = 0 THEN 1 ELSE 2 * Pow2(n - 1)

\* what a call of fn does: it returns, raises an exception of exc_types, or raises
\* one that is not (with the default (Exception,): KeyboardInterrupt, SystemExit)
FnOutcomes == {"returns", "raises_timeout", "raises_http", "raises_uncaught"}

\* the mutant: no break on the last attempt
IsLastAttemptNever(i, attempts) == FALSE

\* `if i == attempts - 1: break`
IsLastAttempt(i, attempts) == i = attempts - 1

\* base_delay_s * (2**i)
RetryDelay(base_delay, i) == base_delay * Pow2(i)

InitRetry ==
    /\ \E a \in 1..MaxAttempts, b \in {DefaultBaseDelay, 0} :
         args = Some([attempts |-> a, base_delay |-> b, i |-> 0, last |-> None])
    /\ ret = None
    /\ written = << >>
    /\ engine = "postgresql"
    /\ session = None
    /\ last_commit = "none"
    /\ RulesIdle
    /\ AggIdle
    /\ StoreIdle
    /\ pc = "try"

\* `return fn()` inside the try, and the except clause
CallFn ==
    /\ pc = "try"
    /\ \E o \in FnOutcomes :
         LET f == args[1]
             e == <<o, f.i>>
         IN  /\ written' = Append(written, <<"fn", f.i, o>>)
             /\ CASE o = "returns" ->
                       /\ ret' = Some([returned |-> <<"value", f.i>>])
                       /\ pc' = "returned"
                       /\ UNCHANGED args
                  [] o = "raises_uncaught" ->
                       /\ ret' = Some([raised |-> e])
                       /\ pc' = "raised"
                       /\ UNCHANGED args
                  [] OTHER ->
                       /\ args' = Some([f EXCEPT !.last = Some(e)])
                       /\ IF IsLastAttempt(f.i, f.attempts)
                          THEN ret' = Some([raised |-> e]) /\ pc' = "raised"
                          ELSE ret' = ret /\ pc' = "sleep"
    /\ UNCHANGED <<engine, session, last_commit, ruleVars, slopeVars, aggVars, storeVars>>

\* time.sleep(base_delay_s * (2**i)) and the next step of `for i in range(attempts)`;
\* when the range is exhausted, `raise last`
Sleep ==
    /\ pc = "sleep"
    /\ LET f == args[1]
       IN  /\ written' = Append(written, <<"sleep", f.i, RetryDelay(f.base_delay, f.i)>>)
           /\ args' = Some([f EXCEPT !.i = f.i + 1])
           /\ IF f.i + 1 < f.attempts
              THEN pc' = "try" /\ ret' = ret
              ELSE pc' = "raised" /\ ret' = Some([raised |-> f.last[1]])
    /\ UNCHANGED <<engine, session, last_commit, ruleVars, slopeVars, aggVars, storeVars>>

NextRetry == CallFn \/ Sleep

SpecRetry == InitRetry /\ [][NextRetry]_vars

\* time.sleep and fn return: no step of _retry waits forever
SpecRetryFair == SpecRetry /\ WF_vars(NextRetry)

(***************************************************************************)
(* Claims about _retry                                                     *)
(***************************************************************************)
FnCalls == {n \in DOMAIN written : written[n][1] = "fn"}
Sleeps == {n \in DOMAIN written : written[n][1] = "sleep"}
RetryFinished == pc \in {"returned", "raised"}

\* C27: fn is called at most `attempts` times; a return of fn ends the call and is its
\* result; time.sleep is called only after a failed attempt i that is not the last,
\* for base_delay_s * 2^i, and is followed by attempt i + 1; when no attempt returns,
\* the exception of the last attempt is raised
C27_RetryBounded ==
    /\ Cardinality(FnCalls) <= args[1].attempts
    /\ \A n \in FnCalls :
          written[n][3] = "returns" =>
              /\ n = Len(written)
              /\ pc = "returned"
              /\ ret = Some([returned |-> <<"value", written[n][2]>>])
    /\ \A n \in Sleeps :
          /\ n > 1
          /\ written[n - 1][1] = "fn"
          /\ written[n - 1][2] = written[n][2]
          /\ written[n - 1][3] \in {"raises_timeout", "raises_http"}
          /\ written[n][2] < args[1].attempts - 1
          /\ written[n][3] = args[1].base_delay * Pow2(written[n][2])
          /\ n < Len(written) => written[n + 1] \in {<<"fn", written[n][2] + 1, o>> : o \in FnOutcomes}
          /\ n = Len(written) => pc = "try"
    /\ pc = "raised" =>
          /\ written[Len(written)][1] = "fn"
          /\ written[Len(written)][3] # "returns"
          /\ ret = Some([raised |-> <<written[Len(written)][3], written[Len(written)][2]>>])
          /\ \A n \in FnCalls : written[n][3] # "returns"
    /\ RetryFinished => written # << >> /\ written[Len(written)][1] = "fn"

\* C27: every call of _retry ends
C27_RetryTerminates == <>RetryFinished

\* the default four attempts all fail: three sleeps of 0.6, 1.2 and 2.4 seconds and the
\* fourth exception raised
C27_Witness ==
    /\ pc = "raised"
    /\ args[1].attempts = DefaultAttempts
    /\ Cardinality(FnCalls) = DefaultAttempts
    /\ {written[n][3] : n \in Sleeps} = {600, 1200, 2400}
    /\ ret[1].raised[2] = DefaultAttempts - 1

\* the third attempt returns after two failures
C27_ReturnsReached ==
    /\ pc = "returned"
    /\ Cardinality(FnCalls) = 3
    /\ Cardinality(Sleeps) = 2
    /\ ret[1].returned = <<"value", 2>>

(***************************************************************************)
(* Specification SpecConcurrent: runs of ingest_and_compute in different   *)
(* threads (POST /api/ingest/run has a sync handler and takes no lock),    *)
(* each in its own session, once its observations are committed: the       *)
(* select-then-insert writes of one indicator state and of the regime      *)
(* state for the same as-of date, then the db.commit() of line 458.  With  *)
(* autoflush off the INSERTs and UPDATEs reach the database at the commit. *)
(* A table is a set of rows; id is the primary key and names the run that  *)
(* inserted the row (0: a row of an earlier day's run).                    *)
(***************************************************************************)
Runners == 1..MaxRuns

IndicatorRowsAt(tbl, k, d) == {r \in tbl : r.indicator_key = k /\ r.date = d}
RegimeRowsAt(tbl, d) == {r \in tbl : r.date = d}

\* _write_indicator_state in the session s of run n: the SELECT reads the committed
\* table, then db.add or the change of the row found
WriteIndicatorStateIn(s, n, tbl, k, d, st) ==
    LET existing == IndicatorRowsAt(tbl, k, d)
    IN  IF existing = {}
        THEN [s EXCEPT !.add_indicator = @ \cup {[id |-> n, indicator_key |-> k, date |-> d, state |-> st]}]
        ELSE [s EXCEPT !.set_indicator = @ \cup {[id |-> (CHOOSE r \in existing : TRUE).id, state |-> st]}]

\* _write_regime_state in the session s of run n
WriteRegimeStateIn(s, n, tbl, d, regime) ==
    LET existing == RegimeRowsAt(tbl, d)
    IN  IF existing = {}
        THEN [s EXCEPT !.add_regime = @ \cup {[id |-> n, date |-> d, regime |-> regime]}]
        ELSE [s EXCEPT !.set_regime = @ \cup {[id |-> (CHOOSE r \in existing : TRUE).id, regime |-> regime]}]

\* the mutant: tables without the unique constraints
UniqueViolationNever(s, ind_tbl, reg_tbl) == FALSE

\* models.py uq_indicator_state_indicator_date and RegimeState.date unique=True: an
\* INSERT of the flush meets a committed row with its key
UniqueViolation(s, ind_tbl, reg_tbl) ==
    \/ \E a \in s.add_indicator : IndicatorRowsAt(ind_tbl, a.indicator_key, a.date) # {}
    \/ \E a \in s.add_regime : RegimeRowsAt(reg_tbl, a.date) # {}

\* the UPDATEs (by primary key) and INSERTs of a flush
FlushIndicator(tbl, s) ==
    {IF \E u \in s.set_indicator : u.id = r.id
     THEN [r EXCEPT !.state = (CHOOSE u \in s.set_indicator : u.id = r.id).state] ELSE r : r \in tbl}
        \cup s.add_indicator

FlushRegime(tbl, s) ==
    {IF \E u \in s.set_regime : u.id = r.id
     THEN [r EXCEPT !.regime = (CHOOSE u \in s.set_regime : u.id = r.id).regime] ELSE r : r \in tbl}
        \cup s.add_regime

NewSession(st, regime) ==
    [pc |-> "indicator", state |-> st, regime |-> regime,
     add_indicator |-> {}, set_indicator |-> {}, add_regime |-> {}, set_regime |-> {}]

InitConcurrent ==
    /\ today = 1
    /\ \E earlier \in BOOLEAN :
         /\ indicator_state = IF earlier
                              THEN {[id |-> 0, indicator_key |-> "credit_spread", date |-> today, state |-> "Y"]}
                              ELSE {}
         /\ regime_state = IF earlier THEN {[id |-> 0, date |-> today, regime |-> "B"]} ELSE {}
    /\ session \in [Runners -> {NewSession(x[1], x[2]) : x \in {<<"G", "A">>, <<"R", "C">>}}]
    /\ engine = "postgresql"
    /\ written = << >>
    /\ last_commit = "none"
    /\ observation = EmptyStore
    /\ ingest_out = None
    /\ snapshot = None
    /\ runs = 0
    /\ advances = 0
    /\ RulesIdle
    /\ AggIdle
    /\ CallIdle
    /\ pc = "concurrent"

\* run n: _write_indicator_state(db, "credit_spread", asof, ...)
RunWritesIndicator(n) ==
    /\ session[n].pc = "indicator"
    /\ session' = [session EXCEPT ![n] =
                      [WriteIndicatorStateIn(@, n, indicator_state, "credit_spread", today, @.state)
                          EXCEPT !.pc = "regime"]]
    /\ UNCHANGED <<callVars, ruleVars, slopeVars, aggVars, pc, engine, written, last_commit,
                   today, observation, indicator_state, regime_state, ingest_out, snapshot,
                   runs, advances>>

\* run n: _write_regime_state(db, asof, ...)
RunWritesRegime(n) ==
    /\ session[n].pc = "regime"
    /\ session' = [session EXCEPT ![n] =
                      [WriteRegimeStateIn(@, n, regime_state, today, @.regime)
                          EXCEPT !.pc = "commit"]]
    /\ UNCHANGED <<callVars, ruleVars, slopeVars, aggVars, pc, engine, written, last_commit,
                   today, observation, indicator_state, regime_state, ingest_out, snapshot,
                   runs, advances>>

\* run n: db.commit(); an IntegrityError leaves the tables as they are and ends the
\* run with that exception
RunCommits(n) ==
    /\ session[n].pc = "commit"
    /\ IF UniqueViolation(session[n], indicator_state, regime_state)
       THEN /\ session' = [session EXCEPT ![n].pc = "IntegrityError"]
            /\ UNCHANGED <<indicator_state, regime_state>>
       ELSE /\ session' = [session EXCEPT ![n].pc = "returned"]
            /\ indicator_state' = FlushIndicator(indicator_state, session[n])
            /\ regime_state' = FlushRegime(regime_state, session[n])
    /\ runs' = runs + 1
    /\ UNCHANGED <<callVars, ruleVars, slopeVars, aggVars, pc, engine, written, last_commit,
                   today, observation, ingest_out, snapshot, advances>>

NextConcurrent ==
    \E n \in Runners : RunWritesIndicator(n) \/ RunWritesRegime(n) \/ RunCommits(n)

SpecConcurrent == InitConcurrent /\ [][NextConcurrent]_vars

(***************************************************************************)
(* Claims about concurrent runs                                            *)
(***************************************************************************)
OneRowPerKey ==
    /\ \A r1, r2 \in regime_state : r1.date = r2.date => r1 = r2
    /\ \A r1, r2 \in indicator_state :
         (r1.indicator_key = r2.indicator_key /\ r1.date = r2.date) => r1 = r2

\* C28: whatever the interleaving of the runs, the RegimeState table never holds two
\* rows for one date nor the IndicatorState table two rows for one (key, date), and no
\* run ends with a uniqueness violation
C28_ConcurrentWritesSafe ==
    /\ OneRowPerKey
    /\ \A n \in Runners : session[n].pc # "IntegrityError"

\* C28, the part that holds: the unique constraints keep one row per key
C28_NeverTwoRows == OneRowPerKey

\* two runs found no row for the date, both added one; the first commit stored its
\* rows and the second failed
C28_SecondCommitFails ==
    /\ session[1].pc = "returned"
    /\ session[2].pc = "IntegrityError"
    /\ session[2].add_regime # {}
    /\ session[2].add_indicator # {}
    /\ \E r \in regime_state : r.id = 1

\* with rows of the date already stored, every run updates them and none fails
C28_UpdatesNeverFail ==
    (\E r \in regime_state : r.id = 0) => \A n \in Runners : session[n].pc # "IntegrityError"

C28_BothUpdated ==
    /\ \A n \in Runners : session[n].pc = "returned"
    /\ \E r \in regime_state : r.id = 0 /\ r.regime # "B"

(***************************************************************************)
(* Specification SpecPaths: one call of _upsert_observations followed by   *)
(* db.commit(), on the PostgreSQL path and on the row-by-row path, from    *)
(* the same stored rows and with the same series.  Every key is written    *)
(* with one source throughout ingest.py, so a row is (key, date) -> value. *)
(***************************************************************************)
StoredBefore == {[EmptyStore EXCEPT !["vix"] = Eager([d \in D |-> 10])] : D \in SUBSET (1..MaxDay)}

InitPaths ==
    /\ observation \in StoredBefore
    /\ \E series \in UpsertSeries : args = Some([indicator_key |-> "vix", series |-> series])
    /\ ret = None
    /\ today = 0
    /\ indicator_state = {}
    /\ regime_state = {}
    /\ ingest_out = None
    /\ snapshot = None
    /\ runs = 0
    /\ advances = 0
    /\ RulesIdle
    /\ AggIdle
    /\ UpsertIdle
    /\ pc = "paths"

\* the rows after the commit and the value returned, on the engine eng
UpsertOn(eng, store, k, series) ==
    LET s == upsert_session(eng, SessionLocal(store), k, series)
    IN  [rows |-> Flush(s.tx, s.added),
         count |-> upsert_count(eng, SessionLocal(store), k, series)]

UpsertOnBothEngines ==
    /\ pc = "paths"
    /\ ret' = Some([postgresql |-> UpsertOn("postgresql", observation, args[1].indicator_key, args[1].series),
                    fallback |-> UpsertOn("sqlite", observation, args[1].indicator_key, args[1].series)])
    /\ pc' = "compared"
    /\ UNCHANGED <<args, upsertVars, ruleVars, slopeVars, aggVars, storeVars>>

NextPaths == UpsertOnBothEngines

SpecPaths == InitPaths /\ [][NextPaths]_vars

(***************************************************************************)
(* Claims about the two paths of _upsert_observations                      *)
(***************************************************************************)
\* the dates of the series with a value (not NaN)
ValuedDates(series) == {d \in DOMAIN series : series[d] # None}

\* C29: the bulk upsert and the row-by-row path leave the same rows and return the
\* same count
C29_PathsEquivalent ==
    ret # None =>
        /\ ret[1].postgresql.rows = ret[1].fallback.rows
        /\ ret[1].postgresql.count = ret[1].fallback.count

\* C29, the part that holds: both paths skip NaN and leave the same rows, the stored
\* rows with the valued rows of the series written over them
C29_SameRows ==
    ret # None =>
        LET k == args[1].indicator_key
            series == args[1].series
        IN  /\ ret[1].postgresql.rows = ret[1].fallback.rows
            /\ \A x \in DOMAIN observation : x # k => ret[1].fallback.rows[x] = observation[x]
            /\ DOMAIN ret[1].fallback.rows[k] = DOMAIN observation[k] \cup ValuedDates(series)
            /\ \A d \in DOMAIN ret[1].fallback.rows[k] :
                  ret[1].fallback.rows[k][d]
                      = IF d \in ValuedDates(series) THEN series[d][1] ELSE observation[k][d]

\* the counts: every valued row on PostgreSQL, only the rows not stored before on the
\* row-by-row path
C29_CountsAsCoded ==
    ret # None =>
        /\ ret[1].postgresql.count = Cardinality(ValuedDates(args[1].series))
        /\ ret[1].fallback.count
              = Cardinality(ValuedDates(args[1].series) \ DOMAIN observation[args[1].indicator_key])

\* a stored row is given another value: PostgreSQL counts it, the row-by-row path
\* does not
C29_UpdateNotCounted ==
    /\ ret # None
    /\ DOMAIN observation["vix"] = {1}
    /\ DOMAIN args[1].series = {1}
    /\ args[1].series[1] = Some(20)
    /\ ret[1].fallback.rows["vix"][1] = 20
    /\ ret[1].postgresql.count = 1
    /\ ret[1].fallback.count = 0

\* a series with a NaN and a new row: both paths skip the NaN
C29_NaNSkipped ==
    /\ ret # None
    /\ \E d \in DOMAIN args[1].series : args[1].series[d] = None /\ d \notin DOMAIN ret[1].postgresql.rows["vix"]
    /\ ret[1].postgresql.count = 1
    /\ ret[1].fallback.count = 1

(***************************************************************************)
(* Claims about the monotonicity of the regime                             *)
(***************************************************************************)
StateRank(st) == IF st = "G" THEN 0 ELSE IF st = "Y" THEN 1 ELSE 2
RegimeRank(code) == IF code = "A" THEN 0 ELSE IF code = "B" THEN 1 ELSE 2

\* the states in which the member k has the state st instead of its own
Raised(sts, k, st) == [sts EXCEPT ![k] = <<st, Some(StateRank(st))>>]

\* the pairs (member, state) that raise one classified core member of sts
Raises(sts, core_keys) ==
    {x \in (core_keys \cap DOMAIN sts) \X {"Y", "R"} :
        sts[x[1]][1] \in {"G", "Y"} /\ StateRank(x[2]) > StateRank(sts[x[1]][1])}

SnapshotMonotone(sts, asof) ==
    \A x \in Raises(sts, SnapshotCoreKeys(sts)) :
        LET before == SnapshotRegime(sts, asof).regime
            after == SnapshotRegime(Raised(sts, x[1], x[2]), asof).regime
        IN  /\ after # None
            /\ RegimeRank(after[1].regime) >= RegimeRank(before[1].regime)
            /\ after[1].risk_score >= before[1].risk_score
            /\ DOMAIN after[1].drivers.core = DOMAIN before[1].drivers.core

IngestMonotone(sts, asof) ==
    \A x \in Raises(sts, IngestCoreKeys(sts)) :
        LET before == IngestRegime(sts, asof)
            after == IngestRegime(Raised(sts, x[1], x[2]), asof)
        IN  /\ RegimeRank(after.regime) >= RegimeRank(before.regime)
            /\ after.risk_score >= before.risk_score
            /\ DOMAIN after.core_states = DOMAIN before.core_states

\* C30: with at least three core members present, giving one of them a more severe
\* state (G < Y < R) and leaving the others as they are never gives a less severe
\* regime (A < B < C) nor a lower risk score, in build_snapshot and in
\* ingest_and_compute
C30_RegimeMonotone ==
    /\ (snap_regime # None /\ Cardinality(SnapshotCoreKeys(states)) >= 3) =>
          /\ snap_regime[1] = SnapshotRegime(states, asof_in)
          /\ SnapshotMonotone(states, asof_in)
    /\ (ing_regime # None /\ Cardinality(IngestCoreKeys(states) \cap DOMAIN states) >= 3) =>
          /\ ing_regime[1] = IngestRegime(states, asof_in)
          /\ IngestMonotone(states, asof_in)

\* four core members, two of them Red and the volatility member Yellow: regime B, and
\* C with a higher risk score once the volatility member is Red
C30_Witness ==
    /\ snap_regime # None
    /\ Cardinality(SnapshotCoreKeys(states)) = 4
    /\ snap_regime[1].regime[1].regime = "B"
    /\ snap_regime[1].regime[1].drivers.reds = 2
    /\ "vix_structure" \in DOMAIN states
    /\ states["vix_structure"][1] = "Y"
    /\ SnapshotRegime(Raised(states, "vix_structure", "R"), asof_in).regime[1].regime = "C"
    /\ SnapshotRegime(Raised(states, "vix_structure", "R"), asof_in).regime[1].risk_score
          > snap_regime[1].regime[1].risk_score

\* an ingestion regime A that a Yellow member turns into B
C30_IngestLeavesA ==
    /\ ing_regime # None
    /\ ing_regime[1].regime = "A"
    /\ \E k \in DOMAIN states \cap FixedCoreKeys :
          IngestRegime(Raised(states, k, "Y"), asof_in).regime = "B"
====
